---- MODULE Spec2Model ----
(***************************************************************************)
(* Model of the composer-stats dashboard (web/src/app/dashboard/page.tsx): *)
(* the fetch that loads the performance series and the render that turns   *)
(* the series into daily returns, risk ratios and the drawdown curve.      *)
(*                                                                         *)
(* Numbers.  A JavaScript number is modelled as an exact value             *)
(* [k, n, d]: k = "fin" is the rational n/d in lowest terms (d > 0),       *)
(* k = "inf" is +Infinity (n = 1) or -Infinity (n = -1), k = "nan" is NaN. *)
(* The four arithmetic operators, the comparisons, Math.max and Math.abs   *)
(* follow IEEE-754 on these values (x/0 is an infinity, 0/0 is NaN, every  *)
(* comparison with NaN is false); rounding and the sign of zero are not    *)
(* modelled.  Math.sqrt and Math.pow have irrational results: they are     *)
(* computed on the class of the result, [k, s] with k as above and s the   *)
(* sign (-1, 0, 1), which is what decides whether a ratio is 0, NaN or an  *)
(* infinity.                                                               *)
(***************************************************************************)
EXTENDS Integers, Sequences, FiniteSets, TLC

\* ---------------------------------------------------------------- bounds
\* longest series the fetch delivers
MaxLen == 3
\* largest valuation in a delivered point (the smallest is -1)
MaxVal == 2

\* trading days per year used to annualise
TradingDays == 252

Null == "null"

\* ------------------------------------------------------- number arithmetic
Abs(x) == IF x < 0 THEN 0 - x ELSE x

Sgn(x) == IF x < 0 THEN 0 - 1 ELSE IF x > 0 THEN 1 ELSE 0

RECURSIVE GCD(_, _)
GCD(a, b) == IF b = 0 THEN a ELSE GCD(b, a % b)

\* the rational n/d in lowest terms, d # 0
Norm(n, d) ==
    LET sn == IF d < 0 THEN 0 - n ELSE n
        sd == Abs(d)
        g  == GCD(Abs(sn), sd)
    IN  [k |-> "fin", n |-> sn \div g, d |-> sd \div g]

I(n) == [k |-> "fin", n |-> n, d |-> 1]
Zero == I(0)
One == I(1)
NaN == [k |-> "nan", n |-> 0, d |-> 1]
Inf(s) == [k |-> "inf", n |-> s, d |-> 1]

IsNaN(a) == a.k = "nan"
IsFinite(a) == a.k = "fin"

Neg(a) == [a EXCEPT !.n = 0 - a.n]

\* a + b
Add(a, b) ==
    IF IsNaN(a) \/ IsNaN(b) THEN NaN
    ELSE IF a.k = "inf" /\ b.k = "inf" THEN (IF a.n = b.n THEN a ELSE NaN)
    ELSE IF a.k = "inf" THEN a
    ELSE IF b.k = "inf" THEN b
    ELSE LET g == GCD(a.d, b.d)
         IN  Norm(a.n * (b.d \div g) + b.n * (a.d \div g), (a.d \div g) * b.d)

\* a - b
Sub(a, b) == Add(a, Neg(b))

\* a * b
Mul(a, b) ==
    IF IsNaN(a) \/ IsNaN(b) THEN NaN
    ELSE IF a.k = "inf" \/ b.k = "inf"
         THEN (IF a.n = 0 \/ b.n = 0 THEN NaN ELSE Inf(Sgn(a.n) * Sgn(b.n)))
    ELSE LET x == Norm(a.n, b.d)
             y == Norm(b.n, a.d)
         IN  Norm(x.n * y.n, x.d * y.d)

\* a / b
Div(a, b) ==
    IF IsNaN(a) \/ IsNaN(b) THEN NaN
    ELSE IF a.k = "inf" THEN (IF b.k = "inf" THEN NaN
                              ELSE Inf(IF b.n < 0 THEN 0 - a.n ELSE a.n))
    ELSE IF b.k = "inf" THEN Zero
    ELSE IF b.n = 0 THEN (IF a.n = 0 THEN NaN ELSE Inf(Sgn(a.n)))
    ELSE Norm(a.n * b.d, a.d * b.n)

\* a < b
Lt(a, b) ==
    IF IsNaN(a) \/ IsNaN(b) THEN FALSE
    ELSE IF a.k = "inf" THEN a.n < 0 /\ ~(b.k = "inf" /\ b.n < 0)
    ELSE IF b.k = "inf" THEN b.n > 0
    ELSE a.n * b.d < b.n * a.d

\* a > b
Gt(a, b) == Lt(b, a)

\* a <= b
Le(a, b) == ~IsNaN(a) /\ ~IsNaN(b) /\ ~Lt(b, a)

\* Math.max(a, b)
MathMax(a, b) == IF IsNaN(a) \/ IsNaN(b) THEN NaN ELSE IF Lt(a, b) THEN b ELSE a

\* Math.min(a, b)
MathMin(a, b) == IF IsNaN(a) \/ IsNaN(b) THEN NaN ELSE IF Lt(b, a) THEN b ELSE a

\* Math.abs(a)
MathAbs(a) == [a EXCEPT !.n = Abs(a.n)]

\* ---------------------------------------- classes of irrational results
Cls(k, s) == [k |-> k, s |-> s]
CZero == Cls("fin", 0)
CNaN == Cls("nan", 0)

\* the class of an exact value
ClassOf(a) == IF IsNaN(a) THEN CNaN ELSE Cls(a.k, Sgn(a.n))

\* Math.sqrt(a)
MathSqrt(a) ==
    IF IsNaN(a) \/ a.n < 0 THEN CNaN ELSE Cls(a.k, Sgn(a.n))

\* x * y on classes
CMul(x, y) ==
    IF x.k = "nan" \/ y.k = "nan" THEN CNaN
    ELSE IF (x.k = "inf" \/ y.k = "inf") /\ (x.s = 0 \/ y.s = 0) THEN CNaN
    ELSE Cls(IF x.k = "inf" \/ y.k = "inf" THEN "inf" ELSE "fin", x.s * y.s)

\* x / y on classes
CDiv(x, y) ==
    IF x.k = "nan" \/ y.k = "nan" THEN CNaN
    ELSE IF x.k = "inf" THEN (IF y.k = "inf" THEN CNaN
                              ELSE Cls("inf", IF y.s < 0 THEN 0 - x.s ELSE x.s))
    ELSE IF y.k = "inf" THEN CZero
    ELSE IF y.s = 0 THEN (IF x.s = 0 THEN CNaN ELSE Cls("inf", x.s))
    ELSE Cls("fin", x.s * y.s)

\* x > 0 on classes
CGt0(x) == x.k # "nan" /\ x.s > 0

\* Math.abs(x) on classes
CAbs(x) == [x EXCEPT !.s = Abs(x.s)]

\* Math.pow(b, e) - 1 for a finite exponent e > 0
PowMinus1(b, e) ==
    IF IsNaN(b) THEN CNaN
    ELSE IF b.k = "inf"
         THEN (IF b.n > 0 \/ e.d # 1 \/ e.n % 2 = 0 THEN Cls("inf", 1)
               ELSE Cls("inf", 0 - 1))
    ELSE IF b.n >= 0 THEN Cls("fin", Sgn(b.n - b.d))
    ELSE IF e.d # 1 THEN CNaN
    ELSE IF e.n % 2 = 1 THEN Cls("fin", 0 - 1)
    ELSE Cls("fin", Sgn(Abs(b.n) - b.d))

\* ------------------------------------------------------ array helpers
\* arr.reduce((a, x) => a + f(x), 0), left to right
RECURSIVE SumFrom(_, _, _)
SumFrom(arr, i, acc) ==
    IF i > Len(arr) THEN acc ELSE SumFrom(arr, i + 1, Add(acc, arr[i]))

Sum(arr) == SumFrom(arr, 1, Zero)

\* arr.filter((r) => r < 0)
Negatives(arr) == SelectSeq(arr, LAMBDA r : Lt(r, Zero))

\* arr.filter((r) => r > 0)
Positives(arr) == SelectSeq(arr, LAMBDA r : Gt(r, Zero))

\* Math.max(...arr) of a non-empty array
RECURSIVE MaxFrom(_, _, _)
MaxFrom(arr, i, acc) ==
    IF i > Len(arr) THEN acc ELSE MaxFrom(arr, i + 1, MathMax(acc, arr[i]))

\* Math.min(...arr) of a non-empty array
RECURSIVE MinFrom(_, _, _)
MinFrom(arr, i, acc) ==
    IF i > Len(arr) THEN acc ELSE MinFrom(arr, i + 1, MathMin(acc, arr[i]))

\* -------------------------------------------- the dashboard's statistics
\* for (let i = 1; i < vals.length; i++) out.push(vals[i] / vals[i - 1] - 1)
\* (i counts from 0 in the code: vals[i] there is vals[i + 1] here)
RECURSIVE DailyLoop(_, _, _)
DailyLoop(vals, i, out) ==
    IF i < Len(vals)
    THEN DailyLoop(vals, i + 1, Append(out, Sub(Div(vals[i + 1], vals[i]), One)))
    ELSE out

RECURSIVE DailyLoopSwapped(_, _, _)
DailyLoopSwapped(vals, i, out) ==
    IF i < Len(vals)
    THEN DailyLoopSwapped(vals, i + 1, Append(out, Sub(Div(vals[i], vals[i + 1]), One)))
    ELSE out

\* toDailyReturns dividing the earlier value by the later one
toDailyReturnsSwapped(vals) == DailyLoopSwapped(vals, 1, <<>>)

toDailyReturns(vals) == DailyLoop(vals, 1, <<>>)

mean(arr) == IF Len(arr) > 0 THEN Div(Sum(arr), I(Len(arr))) ELSE Zero

SquaredDeviations(arr, m) == [i \in 1..Len(arr) |-> Mul(Sub(arr[i], m), Sub(arr[i], m))]

\* variance without the arr.length > 1 guard
varianceUnguarded(arr, m) == Div(Sum(SquaredDeviations(arr, m)), I(Len(arr) - 1))

variance(arr, m) ==
    IF Len(arr) > 1
    THEN Div(Sum(SquaredDeviations(arr, m)), I(Len(arr) - 1))
    ELSE Zero

annualizedVol(daily) ==
    CMul(MathSqrt(variance(daily, mean(daily))), MathSqrt(I(TradingDays)))

\* the exponent 252 / vals.length of cagr
cagrExponent(vals) == Div(I(TradingDays), I(Len(vals)))

cagr(vals) ==
    IF Len(vals) > 1
    THEN PowMinus1(Div(vals[Len(vals)], vals[1]), cagrExponent(vals))
    ELSE CZero

\* sharpe testing av >= 0
sharpeNonNegative(ar, av) == IF av.k # "nan" /\ av.s >= 0 THEN CDiv(ar, av) ELSE CZero

sharpe(ar, av) == IF CGt0(av) THEN CDiv(ar, av) ELSE CZero

downsideDeviation(daily) ==
    LET neg == Negatives(daily)
        meanSquares == Div(Sum([i \in 1..Len(neg) |-> Mul(neg[i], neg[i])]), I(Len(neg)))
    IN  IF Len(neg) = 0 THEN CZero
        ELSE CMul(MathSqrt(meanSquares), MathSqrt(I(TradingDays)))

winPct(daily) ==
    IF Len(daily) > 0 THEN Div(I(Len(Positives(daily))), I(Len(daily))) ELSE Zero

avgWin(daily) == IF Len(Positives(daily)) > 0 THEN mean(Positives(daily)) ELSE Zero

avgLoss(daily) == IF Len(Negatives(daily)) > 0 THEN mean(Negatives(daily)) ELSE Zero

largestWin(daily) == IF Len(daily) > 0 THEN MaxFrom(daily, 2, daily[1]) ELSE Zero

largestLoss(daily) == IF Len(daily) > 0 THEN MinFrom(daily, 2, daily[1]) ELSE Zero

\* vals[0] ?? 0
FirstOrZero(vals) == IF Len(vals) > 0 THEN vals[1] ELSE Zero

\* the loop of maxDrawdown: st = [peak, maxDd]
RECURSIVE MaxDdLoop(_, _, _)
MaxDdLoop(vals, i, st) ==
    IF i > Len(vals) THEN st.maxDd
    ELSE LET peak == MathMax(st.peak, vals[i])
             dd   == Sub(Div(vals[i], peak), One)
         IN  MaxDdLoop(vals, i + 1,
                       [peak |-> peak, maxDd |-> IF Lt(dd, st.maxDd) THEN dd ELSE st.maxDd])

\* the loop of maxDrawdown measuring against the first value, never raising the peak
RECURSIVE MaxDdLoopNoPeak(_, _, _)
MaxDdLoopNoPeak(vals, i, st) ==
    IF i > Len(vals) THEN st.maxDd
    ELSE LET dd == Sub(Div(vals[i], st.peak), One)
         IN  MaxDdLoopNoPeak(vals, i + 1,
                       [st EXCEPT !.maxDd = IF Lt(dd, st.maxDd) THEN dd ELSE st.maxDd])

maxDrawdownFirstPeak(vals) ==
    MaxDdLoopNoPeak(vals, 1, [peak |-> FirstOrZero(vals), maxDd |-> Zero])

maxDrawdown(vals) == MaxDdLoop(vals, 1, [peak |-> FirstOrZero(vals), maxDd |-> Zero])

\* for (const v of vals) peak = Math.max(peak, v)
RECURSIVE PeakLoop(_, _, _)
PeakLoop(vals, i, peak) ==
    IF i > Len(vals) THEN peak ELSE PeakLoop(vals, i + 1, MathMax(peak, vals[i]))

\* currentDrawdown measuring the last value against the first one
currentDrawdownFirstPeak(vals) ==
    LET peak == FirstOrZero(vals)
        last == IF Len(vals) > 0 THEN vals[Len(vals)] ELSE Zero
    IN  IF Gt(peak, Zero) THEN Sub(Div(last, peak), One) ELSE Zero

currentDrawdown(vals) ==
    LET peak == PeakLoop(vals, 1, FirstOrZero(vals))
        last == IF Len(vals) > 0 THEN vals[Len(vals)] ELSE Zero
    IN  IF Gt(peak, Zero) THEN Sub(Div(last, peak), One) ELSE Zero

\* vals.map with the closure's peak carried along
RECURSIVE DrawdownLoop(_, _, _, _)
DrawdownLoop(vals, i, peak, out) ==
    IF i > Len(vals) THEN out
    ELSE LET p == MathMax(peak, vals[i])
         IN  DrawdownLoop(vals, i + 1, p,
                 Append(out, IF Gt(p, Zero) THEN Sub(Div(vals[i], p), One) ELSE Zero))

\* toDrawdown measuring against the previous value instead of the running peak
RECURSIVE DrawdownLoopPrev(_, _, _, _)
DrawdownLoopPrev(vals, i, peak, out) ==
    IF i > Len(vals) THEN out
    ELSE LET p == MathMax(peak, vals[i])
         IN  DrawdownLoopPrev(vals, i + 1, vals[i],
                 Append(out, IF Gt(p, Zero) THEN Sub(Div(vals[i], p), One) ELSE Zero))

\* toDrawdown returning value/peak, the - 1 forgotten
RECURSIVE DrawdownLoopRatio(_, _, _, _)
DrawdownLoopRatio(vals, i, peak, out) ==
    IF i > Len(vals) THEN out
    ELSE LET p == MathMax(peak, vals[i])
         IN  DrawdownLoopRatio(vals, i + 1, p,
                 Append(out, IF Gt(p, Zero) THEN Div(vals[i], p) ELSE Zero))

toDrawdownRatio(vals) == DrawdownLoopRatio(vals, 1, FirstOrZero(vals), <<>>)

toDrawdownPrev(vals) == DrawdownLoopPrev(vals, 1, FirstOrZero(vals), <<>>)

toDrawdown(vals) == DrawdownLoop(vals, 1, FirstOrZero(vals), <<>>)

\* ------------------------------------------------------------- state
VARIABLES
    creds,    \* localStorage holds composer_api_key_id and composer_api_secret
    pc,       \* the fetch effect's run: "pending" until it has settled, then "done"
    data,     \* useState data: <<>> is null, <<points>> the loaded PerformancePoint[]
    stats,    \* useState stats: <<>> is null, <<s>> the loaded stats
    error,    \* useState error: Null or the message
    loading,  \* useState loading
    route,    \* the page the router shows
    stale,    \* a state setter ran since the last render: React renders again
    screen,   \* what the last render returned
    calc      \* the locals the last render computed

dashVars == <<creds, pc, data, stats, error, loading, route, stale, screen, calc>>

\* The web server's session and login page (lib/csrf.ts, api/auth/*, login page)
VARIABLES
    session,   \* the iron-session data: isLoggedIn, apiKeyId, apiSecret, csrfToken
    generated, \* how many tokens generateCsrfToken has produced
    retired,   \* history: the tokens that authorized a login that succeeded
    last,      \* the last request handled and its response
    form,      \* the login page: what its last onSubmit ended in
    loggedOut  \* history: a logout has succeeded and no login has succeeded since

authVars == <<session, generated, retired, last, form, loggedOut>>

\* One call of validateCsrfToken (lib/csrf.ts)
VARIABLES
    request,   \* the call's inputs: method, x-csrf-token header, session token, getSession failing
    verdict    \* what the call returned: <<>> before it returns, else <<returned value>>

csrfVars == <<request, verdict>>

\* The lookback figures both dashboards show for one /api/performance response
VARIABLES
    perf,      \* the response: <<>> before it is loaded, else <<json>>
    cards,     \* the dashboard's KPI cards: <<>> when not rendered, else <<values>>
    tiles      \* the analytics dashboard's overview tiles, likewise

lookbackVars == <<perf, cards, tiles>>

LookbackIdle ==
    /\ perf = <<>>
    /\ cards = <<>>
    /\ tiles = <<>>

\* LookbackReturnCalculator (spec.md 4.4) beside the dashboard's "Total %" row
VARIABLES
    series,    \* the valuation series handed to both
    windowed,  \* the LookbackReturns computed from it: <<>> before, else <<record>>
    totalRow   \* the "Total %" figure rendered from it: <<>> before, else <<number>>

windowVars == <<series, windowed, totalRow>>

WindowIdle ==
    /\ series = <<>>
    /\ windowed = <<>>
    /\ totalRow = <<>>

\* One row of the deviation table: a risk score, its level and its colour
VARIABLES
    score,     \* the riskScore of the row
    level,     \* its riskLevel: <<>> before it is derived, else <<level>>
    severity   \* the CSS class of its score cell: <<>> before the row is rendered

levelVars == <<score, level, severity>>

LevelIdle ==
    /\ score = Zero
    /\ level = <<>>
    /\ severity = <<>>

\* One DeviationScorer invocation (spec.md 4.6)
VARIABLES
    pair,      \* its input: the live and the backtest series of one symphony
    deviation  \* its outcome: <<>> before it ends, else <<SymphonyDeviation or DataError>>

scorerVars == <<pair, deviation>>

ScorerIdle ==
    /\ pair = [live |-> <<>>, backtest |-> <<>>]
    /\ deviation = <<>>

\* A portfolio run: one DeviationScorer invocation per symphony, in parallel,
\* then the PortfolioAggregator (spec.md 4.7, 5)
VARIABLES
    inputs,    \* per symphony: its live and backtest series and its currentValue
    phase,     \* per symphony: "pending", "running", "done" or "failed"
    outcome,   \* per symphony: <<>> until its invocation ends, else <<its outcome>>
    summary    \* <<>> until the PortfolioRiskSummary is produced, else <<summary>>

engineVars == <<inputs, phase, outcome, summary>>

EngineIdle ==
    /\ inputs = <<>>
    /\ phase = <<>>
    /\ outcome = <<>>
    /\ summary = <<>>

\* The dashboard page's fetch effect over changes of the query string
\* (app/dashboard/page.tsx 58-100); its runs set data, stats, error and loading
VARIABLES
    qs,       \* the query string of the last render
    runs,     \* the runs of the effect, oldest first: qs, pc, cancelled, outcome
    mounted   \* the component is mounted

effectVars == <<qs, runs, mounted>>

EffectIdle ==
    /\ qs = ""
    /\ runs = <<>>
    /\ mounted = FALSE

\* The tabbed dashboard page DashboardPage (part_001): loadData and the
\* expansion of symphony rows
VARIABLES
    stored,    \* localStorage holds composer_api_key_id and composer_api_secret
    ui,        \* the useState values of the page, and the route the router shows
    calls,     \* the calls of loadData, oldest first: pc, parsed, outcome
    requests   \* the symphony comparison fetches in flight, oldest first

pageVars == <<stored, ui, calls, requests>>

\* the useState initial values
NoPage ==
    [performanceData |-> <<>>, allocationData |-> <<>>, symphonyData |-> <<>>,
     riskComparisonData |-> <<>>, portfolioRiskData |-> <<>>,
     loading |-> TRUE, error |-> Null,
     expandedSymphonies |-> {}, symphonyComparisonData |-> {},
     route |-> "/dashboard"]

PageIdle ==
    /\ stored = FALSE
    /\ ui = NoPage
    /\ calls = <<>>
    /\ requests = <<>>

vars == <<dashVars, authVars, csrfVars, lookbackVars, windowVars, levelVars, scorerVars, engineVars, effectVars, pageVars>>

otherThanDash == <<authVars, csrfVars, lookbackVars, windowVars, levelVars, scorerVars, engineVars, effectVars, pageVars>>
otherThanAuth == <<dashVars, csrfVars, lookbackVars, windowVars, levelVars, scorerVars, engineVars, effectVars, pageVars>>
otherThanCsrf == <<dashVars, authVars, lookbackVars, windowVars, levelVars, scorerVars, engineVars, effectVars, pageVars>>
otherThanLookback == <<dashVars, authVars, csrfVars, windowVars, levelVars, scorerVars, engineVars, effectVars, pageVars>>
otherThanWindow == <<dashVars, authVars, csrfVars, lookbackVars, levelVars, scorerVars, engineVars, effectVars, pageVars>>
otherThanLevel == <<dashVars, authVars, csrfVars, lookbackVars, windowVars, scorerVars, engineVars, effectVars, pageVars>>
otherThanScorer == <<dashVars, authVars, csrfVars, lookbackVars, windowVars, levelVars, engineVars, effectVars, pageVars>>
otherThanEngine == <<dashVars, authVars, csrfVars, lookbackVars, windowVars, levelVars, scorerVars, effectVars, pageVars>>
\* the effect runs in the dashboard page and sets its state
otherThanEffect == <<authVars, csrfVars, lookbackVars, windowVars, levelVars, scorerVars, engineVars, pageVars>>
otherThanPage == <<dashVars, authVars, csrfVars, lookbackVars, windowVars, levelVars, scorerVars, engineVars, effectVars>>

NoCall == [method |-> <<>>, header |-> <<>>, sessionToken |-> <<>>, throws |-> FALSE]

CsrfIdle ==
    /\ request = NoCall
    /\ verdict = <<>>

\* a session without data: no cookie yet, or destroyed
NoSession == [isLoggedIn |-> FALSE, apiKeyId |-> "", apiSecret |-> "", csrfToken |-> <<>>]

\* no request handled yet. by is the client ("form" for the login page), before
\* the session's token when the request arrived, renewed whether the handler left
\* a token never generated before, usedRetired whether the header held a token
\* that had authorized an earlier login, forwarded the exchange with the backend
\* API if the handler sent a request to it.
NoRequest == [route |-> "none", by |-> "none", header |-> <<>>, body |-> <<>>,
              before |-> <<>>, status |-> 0, error |-> "",
              renewed |-> FALSE, usedRetired |-> FALSE, forwarded |-> <<>>]

NoForm == [error |-> "null", loading |-> FALSE, route |-> "/login"]

\* the server and the login page as they are while another component is observed
AuthIdle ==
    /\ session = NoSession
    /\ generated = 0
    /\ retired = {}
    /\ last = NoRequest
    /\ form = NoForm
    /\ loggedOut = FALSE

\* ------------------------------------------------------------- inputs
\* valuations a point may carry: the API's JSON is not validated by the page
Values == (0 .. MaxVal) \cup {0 - 1}

\* the benchmark runs through the same functions as the portfolio and is drawn
\* from the valid valuations only
BenchmarkValues == {1, 2}

Point == [portfolio : Values, sp500 : BenchmarkValues]

\* spec.md's worked example 100, 110, 121, 108.9, in tenths
WorkedExample == <<1000, 1100, 1210, 1089>>

WorkedData == [i \in 1..4 |-> [portfolio |-> WorkedExample[i], sp500 |-> WorkedExample[i]]]

DataSet == UNION {[1..n -> Point] : n \in 0..MaxLen} \cup {WorkedData}

StatsSet == {<<>>, <<"stats">>}

FailureMessages == {"Failed to load performance: 403", "Failed to load performance: 500"}

\* ------------------------------------------------------------- render
portfolioOf(d) == [i \in 1..Len(d) |-> I(d[i].portfolio)]

sp500Of(d) == [i \in 1..Len(d) |-> I(d[i].sp500)]

\* the change over the last step alone
totalPctLastStep(vals) ==
    IF Len(vals) > 1 /\ Gt(vals[Len(vals) - 1], Zero)
    THEN Sub(Div(vals[Len(vals)], vals[Len(vals) - 1]), One)
    ELSE Zero

\* spyVals[0] > 0 ? spyVals.at(-1)! / spyVals[0] - 1 : 0
totalPct(vals) ==
    IF Len(vals) > 0 /\ Gt(vals[1], Zero)
    THEN Sub(Div(vals[Len(vals)], vals[1]), One)
    ELSE Zero

\* Math.abs(maxDrawdown(vals)) > 0 ? c / Math.abs(maxDrawdown(vals)) : 0
rewardRisk(c, vals) ==
    IF Gt(MathAbs(maxDrawdown(vals)), Zero)
    THEN CDiv(c, ClassOf(MathAbs(maxDrawdown(vals))))
    ELSE CZero

Row(s, p) == [spy |-> s, port |-> p]

\* lines 172-220 of DashboardContent, for the loaded points d
Compute(d) ==
    LET portVals == portfolioOf(d)
        spyVals == sp500Of(d)
        portDaily == toDailyReturns(portVals)
        spyDaily == toDailyReturns(spyVals)
        portCagr == cagr(portVals)
        spyCagr == cagr(spyVals)
        portVol == annualizedVol(portDaily)
        spyVol == annualizedVol(spyDaily)
        ddSeriesPort == toDrawdown(portVals)
        ddSeriesSpy == toDrawdown(spyVals)
    IN  [ portVals |-> portVals,
          spyVals |-> spyVals,
          portDaily |-> portDaily,
          spyDaily |-> spyDaily,
          riskRows |->
            [ total |-> Row(totalPct(spyVals), totalPct(portVals)),
              cagr |-> Row(spyCagr, portCagr),
              winPct |-> Row(winPct(spyDaily), winPct(portDaily)),
              avgWin |-> Row(avgWin(spyDaily), avgWin(portDaily)),
              avgLoss |-> Row(avgLoss(spyDaily), avgLoss(portDaily)),
              average |-> Row(mean(spyDaily), mean(portDaily)),
              largestWin |-> Row(largestWin(spyDaily), largestWin(portDaily)),
              largestLoss |-> Row(largestLoss(spyDaily), largestLoss(portDaily)),
              currentDd |-> Row(currentDrawdown(spyVals), currentDrawdown(portVals)),
              maxDd |-> Row(maxDrawdown(spyVals), maxDrawdown(portVals)),
              annStd |-> Row(spyVol, portVol),
              sharpe |-> Row(sharpe(spyCagr, spyVol), sharpe(portCagr, portVol)),
              sortino |-> Row(sharpe(spyCagr, downsideDeviation(spyDaily)),
                              sharpe(portCagr, downsideDeviation(portDaily))),
              rewardRisk |-> Row(rewardRisk(spyCagr, spyVals), rewardRisk(portCagr, portVals)) ],
          dd |-> [i \in 1..Len(d) |->
                     [portfolio |-> ddSeriesPort[i], sp500 |-> ddSeriesSpy[i]]] ]

\* what a render that returns before line 172 leaves computed
NoCalc == Compute(<<>>)

\* the dashboard page as it is while another component is observed
DashIdle ==
    /\ creds = FALSE
    /\ pc = "pending"
    /\ data = <<>>
    /\ stats = <<>>
    /\ error = Null
    /\ loading = TRUE
    /\ route = "/dashboard"
    /\ stale = FALSE
    /\ screen = "loading"
    /\ calc = NoCalc

\* ------------------------------------------------------------- actions
Init ==
    /\ creds \in BOOLEAN
    /\ pc = "pending"
    /\ data = <<>>
    /\ stats = <<>>
    /\ error = Null
    /\ loading = TRUE
    /\ route = "/dashboard"
    /\ stale = FALSE
    /\ screen = "loading"
    /\ calc = NoCalc
    /\ AuthIdle
    /\ CsrfIdle
    /\ LookbackIdle
    /\ WindowIdle
    /\ LevelIdle
    /\ ScorerIdle
    /\ EngineIdle
    /\ EffectIdle
    /\ PageIdle

\* run(): no credentials in localStorage, redirect; finally setLoading(false)
RunNoCreds ==
    /\ pc = "pending" /\ ~creds
    /\ pc' = "done"
    /\ route' = "/login"
    /\ loading' = FALSE
    /\ stale' = TRUE
    /\ UNCHANGED <<creds, data, stats, error, screen, calc>>
    /\ UNCHANGED otherThanDash

\* run(): the response is 401, redirect; finally setLoading(false)
RunUnauthorized ==
    /\ pc = "pending" /\ creds
    /\ pc' = "done"
    /\ route' = "/login"
    /\ loading' = FALSE
    /\ stale' = TRUE
    /\ UNCHANGED <<creds, data, stats, error, screen, calc>>
    /\ UNCHANGED otherThanDash

\* run(): the response is not ok, the throw is caught: setError, setLoading(false)
RunFailed ==
    /\ pc = "pending" /\ creds
    /\ \E msg \in FailureMessages : error' = msg
    /\ pc' = "done"
    /\ loading' = FALSE
    /\ stale' = TRUE
    /\ UNCHANGED <<creds, data, stats, route, screen, calc>>
    /\ UNCHANGED otherThanDash

\* run(): the response is ok: setData(json.data), setStats(json.stats), setLoading(false)
RunOk ==
    /\ pc = "pending" /\ creds
    /\ \E d \in DataSet, s \in StatsSet :
          /\ data' = <<d>>
          /\ stats' = s
    /\ pc' = "done"
    /\ loading' = FALSE
    /\ stale' = TRUE
    /\ UNCHANGED <<creds, error, route, screen, calc>>
    /\ UNCHANGED otherThanDash

\* the body of DashboardContent after the hooks, lines 148-306, run by React
\* after the state setters of a settled run (the first render, which shows the
\* spinner, is part of mounting the component)
Render ==
    /\ stale
    /\ stale' = FALSE
    /\ screen' = IF loading THEN "loading"
                 ELSE IF error # Null THEN "error"
                 ELSE IF data = <<>> \/ stats = <<>> THEN "null"
                 ELSE "dashboard"
    /\ calc' = IF screen' = "dashboard" THEN Compute(data[1]) ELSE NoCalc
    /\ UNCHANGED <<creds, pc, data, stats, error, loading, route>>
    /\ UNCHANGED otherThanDash

\* the Logout form's onSubmit
Logout ==
    /\ screen = "dashboard"
    /\ creds' = FALSE
    /\ route' = "/login"
    /\ UNCHANGED <<pc, data, stats, error, loading, stale, screen, calc>>
    /\ UNCHANGED otherThanDash

\* the error screen's "go to the login page" button
GoToLogin ==
    /\ screen = "error"
    /\ route' = "/login"
    /\ UNCHANGED <<creds, pc, data, stats, error, loading, stale, screen, calc>>
    /\ UNCHANGED otherThanDash

Next ==
    \/ RunNoCreds
    \/ RunUnauthorized
    \/ RunFailed
    \/ RunOk
    \/ Render
    \/ Logout
    \/ GoToLogin

Spec == Init /\ [][Next]_vars

\* ------------------------------------------------ reading a rendered page
Shown == screen = "dashboard"

Sides == {"portfolio", "sp500"}

ValsOf(side) == IF side = "portfolio" THEN calc.portVals ELSE calc.spyVals

DailyOf(side) == IF side = "portfolio" THEN calc.portDaily ELSE calc.spyDaily

\* the drawdown chart's curve of one side
CurveOf(side) ==
    [i \in 1..Len(calc.dd) |->
        IF side = "portfolio" THEN calc.dd[i].portfolio ELSE calc.dd[i].sp500]

\* a row of the risk table, for one side
Cell(row, side) == IF side = "portfolio" THEN row.port ELSE row.spy

Positive(vals) == \A i \in 1..Len(vals) : Gt(vals[i], Zero)

NonDecreasing(vals) == \A i \in 1..(Len(vals) - 1) : Le(vals[i], vals[i + 1])

Constant(vals) == \A i \in 1..Len(vals) : vals[i] = vals[1]

\* the largest of vals[1..i]
CumMaxAt(vals, i) ==
    CHOOSE m \in {vals[j] : j \in 1..i} : \A j \in 1..i : Le(vals[j], m)

CumMax(vals) == [i \in 1..Len(vals) |-> CumMaxAt(vals, i)]

\* the smallest element of a non-empty sequence
MinOf(seq) ==
    CHOOSE m \in {seq[j] : j \in 1..Len(seq)} : \A j \in 1..Len(seq) : Le(m, seq[j])

\* ------------------------------------------------------------- claims

\* C1: for a series of n >= 2 positive values toDailyReturns yields exactly
\* n - 1 returns and the i-th is value[i+1]/value[i] - 1.
C1_DailyReturns ==
    Shown =>
      \A side \in Sides :
        LET vals == ValsOf(side)
            daily == DailyOf(side)
        IN  (Len(vals) >= 2 /\ Positive(vals)) =>
              /\ Len(daily) = Len(vals) - 1
              /\ \A i \in 1..(Len(vals) - 1) :
                    daily[i] = Sub(Div(vals[i + 1], vals[i]), One)

\* a rendered portfolio series of three positive values that rises and then falls
C1_Witness ==
    /\ Shown
    /\ Len(calc.portVals) = 3 /\ Positive(calc.portVals)
    /\ Len(calc.portDaily) = 2
    /\ Gt(calc.portDaily[1], Zero) /\ Lt(calc.portDaily[2], Zero)

\* a series is no valuation series: fewer than 2 points, or a value <= 0
InvalidSeries(vals) == Len(vals) < 2 \/ \E i \in 1..Len(vals) : Le(vals[i], Zero)

\* C2: a series with a value <= 0 or fewer than 2 points never gets its return
\* series computed and shown: the render reports an error instead.
C2_DataErrorReported ==
    (~stale /\ data # <<>> /\ stats # <<>>
        /\ (InvalidSeries(portfolioOf(data[1])) \/ InvalidSeries(sp500Of(data[1]))))
    => (error # Null /\ screen # "dashboard")

\* C3: for a non-empty series of positive values, drawdown[i] is
\* value[i]/peak[i] - 1 with peak[i] the running maximum from the first value on,
\* every drawdown lies in (-1, 0], and the worked example 100, 110, 121, 108.9
\* has drawdown -0.10 at index 3.
C3_Drawdown ==
    Shown =>
      \A side \in Sides :
        LET vals == ValsOf(side)
            curve == CurveOf(side)
        IN  /\ (Len(vals) >= 1 /\ Positive(vals)) =>
                 /\ Len(curve) = Len(vals)
                 /\ \A i \in 1..Len(vals) :
                       /\ curve[i] = Sub(Div(vals[i], CumMaxAt(vals, i)), One)
                       /\ Lt(I(0 - 1), curve[i]) /\ Le(curve[i], Zero)
            /\ (vals = portfolioOf(WorkedData)) => curve[4] = Norm(0 - 1, 10)

\* the worked example rendered, ending 10% under its peak
C3_Witness ==
    /\ Shown
    /\ calc.portVals = portfolioOf(WorkedData)
    /\ calc.dd[3].portfolio = Zero
    /\ calc.dd[4].portfolio = Norm(0 - 1, 10)

\* C4: a non-decreasing series has an all-zero drawdown curve and maxDrawdown 0,
\* and for every input series maxDrawdown lies in [-1, 0].
C4_MaxDrawdownRange ==
    Shown =>
      \A side \in Sides :
        LET vals == ValsOf(side)
            maxDd == Cell(calc.riskRows.maxDd, side)
        IN  /\ NonDecreasing(vals) =>
                 /\ \A i \in 1..Len(vals) : CurveOf(side)[i] = Zero
                 /\ maxDd = Zero
            /\ Le(I(0 - 1), maxDd) /\ Le(maxDd, Zero)

\* C5: for a non-empty series of positive values the 'Max DD' row equals the
\* minimum of the drawdown chart's curve.
C5_MaxDrawdownIsCurveMin ==
    Shown =>
      \A side \in Sides :
        (Len(ValsOf(side)) >= 1 /\ Positive(ValsOf(side))) =>
           Cell(calc.riskRows.maxDd, side) = MinOf(CurveOf(side))

\* a rendered series whose deepest drawdown is in the middle, recovered at the end
C5_Witness ==
    /\ Shown
    /\ Len(calc.portVals) = 3 /\ Positive(calc.portVals)
    /\ Lt(calc.dd[2].portfolio, Zero)
    /\ calc.dd[3].portfolio = Zero
    /\ calc.riskRows.maxDd.port = calc.dd[2].portfolio

\* C6: for a non-empty series of positive values the 'Current DD' row (last value
\* over the maximum of the whole series) equals the last point of the curve.
C6_CurrentDrawdownIsCurveLast ==
    Shown =>
      \A side \in Sides :
        (Len(ValsOf(side)) >= 1 /\ Positive(ValsOf(side))) =>
           Cell(calc.riskRows.currentDd, side) = CurveOf(side)[Len(ValsOf(side))]

\* a rendered series whose peak comes after the first value and before the last
C6_Witness ==
    /\ Shown
    /\ Len(calc.portVals) = 3 /\ Positive(calc.portVals)
    /\ Lt(calc.portVals[1], calc.portVals[2])
    /\ Lt(calc.portVals[3], calc.portVals[2])
    /\ Lt(calc.riskRows.currentDd.port, Zero)

\* C7: for a series of length L >= 2 the exponent cagr raises last/first to is
\* 252/(L - 1), L - 1 being the number of return observations.
C7_CagrExponent ==
    Shown =>
      \A side \in Sides :
        Len(ValsOf(side)) >= 2 =>
           /\ Len(DailyOf(side)) = Len(ValsOf(side)) - 1
           /\ cagrExponent(ValsOf(side)) = Div(I(TradingDays), I(Len(DailyOf(side))))

\* C8: on a series of positive values a ratio whose denominator is 0 is 0:
\* Sharpe when the annualized volatility is 0, Sortino when the downside
\* deviation is 0, Reward/Risk when the maximum drawdown is 0.
C8_ZeroDenominatorSentinel ==
    Shown =>
      \A side \in Sides :
        Positive(ValsOf(side)) =>
           /\ Cell(calc.riskRows.annStd, side) = CZero
                 => Cell(calc.riskRows.sharpe, side) = CZero
           /\ downsideDeviation(DailyOf(side)) = CZero
                 => Cell(calc.riskRows.sortino, side) = CZero
           /\ Cell(calc.riskRows.maxDd, side) = Zero
                 => Cell(calc.riskRows.rewardRisk, side) = CZero

\* a rendered rising series of two points: its CAGR is positive and all three
\* denominators are 0
C8_Witness ==
    /\ Shown
    /\ Len(calc.portVals) = 2 /\ Positive(calc.portVals)
    /\ calc.riskRows.cagr.port = Cls("fin", 1)
    /\ calc.riskRows.annStd.port = CZero
    /\ downsideDeviation(calc.portDaily) = CZero
    /\ calc.riskRows.maxDd.port = Zero
    /\ calc.riskRows.sharpe.port = CZero

\* C9: a constant series of positive values of length >= 2 has annualized
\* volatility 0 and Sharpe, Sortino and Reward/Risk 0.
C9_ConstantSeries ==
    Shown =>
      \A side \in Sides :
        (Len(ValsOf(side)) >= 2 /\ Positive(ValsOf(side)) /\ Constant(ValsOf(side))) =>
           /\ Cell(calc.riskRows.annStd, side) = CZero
           /\ Cell(calc.riskRows.sharpe, side) = CZero
           /\ Cell(calc.riskRows.sortino, side) = CZero
           /\ Cell(calc.riskRows.rewardRisk, side) = CZero

\* a rendered constant portfolio series of the longest length
C9_Witness ==
    /\ Shown
    /\ Len(calc.portVals) >= 3 /\ Positive(calc.portVals) /\ Constant(calc.portVals)
    /\ calc.riskRows.annStd.port = CZero

\* C10 as stated: the drawdown curve and the first value alone fix the running
\* peaks, so two series of positive values with the same first value and the same
\* drawdown curve have the same cumulative maximum.
C10_PeaksFromCurveAndFirst ==
    (Shown /\ Len(calc.dd) >= 1 /\ Positive(calc.portVals) /\ Positive(calc.spyVals)
       /\ calc.portVals[1] = calc.spyVals[1]
       /\ CurveOf("portfolio") = CurveOf("sp500"))
    => CumMax(calc.portVals) = CumMax(calc.spyVals)

\* C10 amended: for a non-empty series of positive values the running peaks
\* rebuilt from the drawdown curve and the values, value[i] / (1 + drawdown[i]),
\* are the cumulative maximum of the values.
C10_PeaksFromCurveAndValues ==
    Shown =>
      \A side \in Sides :
        LET vals == ValsOf(side)
            curve == CurveOf(side)
        IN  (Len(vals) >= 1 /\ Positive(vals)) =>
              /\ Len(curve) = Len(vals)
              /\ \A i \in 1..Len(vals) :
                    Div(vals[i], Add(One, curve[i])) = CumMaxAt(vals, i)

\* a rendered series that sets a new peak after the first value and then falls
C10_Witness ==
    /\ Shown
    /\ Len(calc.portVals) = 3 /\ Positive(calc.portVals)
    /\ CumMaxAt(calc.portVals, 3) # calc.portVals[1]
    /\ Lt(calc.dd[3].portfolio, Zero)
    /\ calc.dd[2].portfolio = Zero

\* ======================================================= lib/csrf.ts
\* Strings are sequences of characters, so that toUpperCase, length and
\* charCodeAt are computed character by character.
TokenLen == 2

LowerCase == <<"a", "b", "c", "d", "e", "f", "g", "h", "i", "j", "k", "l", "m",
               "n", "o", "p", "q", "r", "s", "t", "u", "v", "w", "x", "y", "z">>

UpperCase == <<"A", "B", "C", "D", "E", "F", "G", "H", "I", "J", "K", "L", "M",
               "N", "O", "P", "Q", "R", "S", "T", "U", "V", "W", "X", "Y", "Z">>

UpperChar(c) ==
    IF \E i \in 1..26 : LowerCase[i] = c
    THEN UpperCase[CHOOSE i \in 1..26 : LowerCase[i] = c]
    ELSE c

\* String.prototype.toUpperCase
toUpperCase(str) == [i \in 1..Len(str) |-> UpperChar(str[i])]

\* String.prototype.charCodeAt, on the characters tokens are made of here
charCodeAt(str, i) == IF str[i] = "a" THEN 97 ELSE 98

RECURSIVE BitXor(_, _)
BitXor(a, b) ==
    IF a = 0 /\ b = 0 THEN 0
    ELSE (((a % 2) + (b % 2)) % 2) + 2 * BitXor(a \div 2, b \div 2)

RECURSIVE BitOr(_, _)
BitOr(a, b) ==
    IF a = 0 /\ b = 0 THEN 0
    ELSE (IF a % 2 = 1 \/ b % 2 = 1 THEN 1 ELSE 0) + 2 * BitOr(a \div 2, b \div 2)

CSRF_HEADER_NAME == "x-csrf-token"

SAFE_METHODS == {<<"G", "E", "T">>, <<"H", "E", "A", "D">>,
                 <<"O", "P", "T", "I", "O", "N", "S">>}

\* the for loop of timingSafeEqual, from index i with the bits gathered so far
RECURSIVE TimingLoop(_, _, _, _)
TimingLoop(a, b, i, result) ==
    IF i > Len(a) THEN result
    ELSE TimingLoop(a, b, i + 1, BitOr(result, BitXor(charCodeAt(a, i), charCodeAt(b, i))))

\* the loop alone, without the length test, over the characters both strings have
timingSafeEqualNoLength(a, b) ==
    TimingLoop(SubSeq(a, 1, IF Len(a) < Len(b) THEN Len(a) ELSE Len(b)), b, 1, 0) = 0

timingSafeEqual(a, b) ==
    IF Len(a) # Len(b) THEN FALSE
    ELSE TimingLoop(a, b, 1, 0) = 0

Response(status, message) == <<[status |-> status, error |-> message]>>

\* a header or session token the code treats as missing: null, undefined or ""
Falsy(opt) == opt = <<>> \/ opt[1] = <<>>

\* Headers.get: <<>> is the null of a header the request does not have
HeadersGet(headers, name) == IF name \in DOMAIN headers THEN <<headers[name]>> ELSE <<>>

\* validateCsrfToken: <<>> is the null it returns for a request it lets through.
\* headers is the request's header record; throws says getSession() fails.
validateCsrfToken(method, headers, sessionToken, throws) ==
    IF toUpperCase(method) \in SAFE_METHODS THEN <<>>
    ELSE IF throws THEN Response(500, "CSRF validation failed")
    ELSE IF Falsy(sessionToken)
        THEN Response(403, "CSRF token not found in session. Please refresh and try again.")
    ELSE IF Falsy(HeadersGet(headers, CSRF_HEADER_NAME))
        THEN Response(403, "CSRF token missing from request")
    ELSE IF ~timingSafeEqual(sessionToken[1], HeadersGet(headers, CSRF_HEADER_NAME)[1])
        THEN Response(403, "Invalid CSRF token")
    ELSE <<>>

\* --------------------------------------------- one call of validateCsrfToken
Alphabet == {"a", "b"}

\* the tokens generateCsrfToken can return
Tokens == [1..TokenLen -> Alphabet]

\* what a client can put in the x-csrf-token header: nothing, or any string,
\* shorter and longer than a token included
HeaderValues == {<<>>} \cup {<<h>> : h \in UNION {[1..n -> Alphabet] : n \in 0..(TokenLen + 1)}}

\* session.csrfToken: undefined, or a token generateCsrfToken returned
SessionTokens == {<<>>} \cup {<<t>> : t \in Tokens}

Methods == {<<"G", "E", "T">>, <<"g", "e", "t">>, <<"G", "e", "t">>,
            <<"H", "E", "A", "D">>, <<"h", "e", "a", "d">>,
            <<"O", "P", "T", "I", "O", "N", "S">>, <<"o", "p", "t", "i", "o", "n", "s">>,
            <<"P", "O", "S", "T">>, <<"p", "o", "s", "t">>,
            <<"P", "U", "T">>, <<"D", "E", "L", "E", "T", "E">>, <<"g", "e", "t", "s">>}

\* the headers of a request that carries the given x-csrf-token header, if any
WithCsrfHeader(h) ==
    [n \in (IF h = <<>> THEN {} ELSE {CSRF_HEADER_NAME}) |-> h[1]]

InitCsrf ==
    /\ request \in [method : Methods, header : HeaderValues,
                    sessionToken : SessionTokens, throws : BOOLEAN]
    /\ verdict = <<>>
    /\ DashIdle
    /\ AuthIdle
    /\ LookbackIdle
    /\ WindowIdle
    /\ LevelIdle
    /\ ScorerIdle
    /\ EngineIdle
    /\ EffectIdle
    /\ PageIdle

Validate ==
    /\ verdict = <<>>
    /\ verdict' = <<validateCsrfToken(request.method, WithCsrfHeader(request.header),
                                      request.sessionToken, request.throws)>>
    /\ UNCHANGED request
    /\ UNCHANGED otherThanCsrf

NextCsrf == Validate

SpecCsrf == InitCsrf /\ [][NextCsrf]_vars

\* reading a finished call
Returned == verdict # <<>>

ReturnedNull == Returned /\ verdict[1] = <<>>

ReturnedStatus(code) == Returned /\ verdict[1] # <<>> /\ verdict[1][1].status = code

\* the method names GET, HEAD or OPTIONS in some mix of upper and lower case
SafeIgnoringCase(m) ==
    \E safe \in SAFE_METHODS :
        /\ Len(m) = Len(safe)
        /\ \A i \in 1..Len(m) : m[i] = safe[i] \/ UpperChar(m[i]) = safe[i]

TokenMatches ==
    /\ request.sessionToken # <<>>
    /\ request.header # <<>>
    /\ request.header = request.sessionToken

\* C18: validateCsrfToken returns null exactly when the method is GET, HEAD or
\* OPTIONS in any letter case, or the session holds a token, the request has an
\* x-csrf-token header and the two are equal; every other call in which
\* getSession does not throw returns a 403 response.
C18_ValidateAcceptsIff ==
    (Returned /\ ~(request.throws /\ ~SafeIgnoringCase(request.method))) =>
        /\ ReturnedNull <=> (SafeIgnoringCase(request.method) \/ TokenMatches)
        /\ ~ReturnedNull => ReturnedStatus(403)

\* a POST with the session's token was let through, so a header of another
\* length or another token could have been sent in its place
C18_Witness ==
    /\ ReturnedNull
    /\ ~SafeIgnoringCase(request.method)
    /\ TokenMatches

\* ============================ the session, the auth routes and the login page
MaxTokens == 3

\* generateCsrfToken: randomBytes never repeats a token in practice, so the
\* n-th call returns the n-th token of an enumeration (n counted from 0)
generateCsrfToken(n) ==
    [i \in 1..TokenLen |-> IF (n \div (2 ^ (TokenLen - i))) % 2 = 0 THEN "a" ELSE "b"]

\* the tokens generated by the first n calls
Generated(n) == {generateCsrfToken(k) : k \in 0..(n - 1)}

\* regenerateCsrfToken, on the session and the number of tokens generated so far
regenerateCsrfTokenKept(s, n) == s

regenerateCsrfToken(s, n) == [s EXCEPT !.csrfToken = <<generateCsrfToken(n)>>]

\* getCsrfToken: the session it saves
getCsrfToken(s, n) ==
    IF Falsy(s.csrfToken) THEN [s EXCEPT !.csrfToken = <<generateCsrfToken(n)>>] ELSE s

POST_METHOD == <<"P", "O", "S", "T">>

\* String.prototype.trim
RECURSIVE trim(_)
trim(str) ==
    IF str = <<>> THEN str
    ELSE IF Head(str) = " " THEN trim(Tail(str))
    ELSE IF str[Len(str)] = " " THEN trim(SubSeq(str, 1, Len(str) - 1))
    ELSE str

Ok(status) == status >= 200 /\ status <= 299

\* the statuses a Response may not carry a body with (Fetch standard, "null
\* body status" among the statuses fetch resolves with)
NullBodyStatuses == {204, 205, 304}

\* forwards whatever the session holds
proxyToBackendOpen(s, upstream) ==
    [response |-> Response(IF upstream.throws THEN 500 ELSE upstream.status, "")[1],
     forwarded |-> TRUE]

\* proxyToBackend: the response, and whether fetch was called. upstream is what
\* the backend API does with the request: fetch throws, or resolves with a
\* response of some status whose text is read into data.
proxyToBackend(s, upstream) ==
    IF ~(s.isLoggedIn /\ s.apiKeyId # <<>> /\ s.apiSecret # <<>>)
    THEN [response |-> Response(401, "Unauthorized - Please login")[1], forwarded |-> FALSE]
    ELSE IF upstream.throws
    THEN [response |-> Response(500, "Failed to fetch data from backend")[1],
          forwarded |-> TRUE]
    \* new NextResponse(data, {status}): data is a string, so the constructor
    \* throws for a null body status and the catch block answers
    ELSE IF upstream.status \in NullBodyStatuses
    THEN [response |-> Response(500, "Failed to fetch data from backend")[1],
          forwarded |-> TRUE]
    ELSE [response |-> Response(upstream.status, "")[1], forwarded |-> TRUE]

\* renews the token before it looks at the credentials
loginPOSTRenewFirst(s, n, headers, body) ==
    LET csrfError == validateCsrfToken(POST_METHOD, headers, s.csrfToken, FALSE) IN
    IF csrfError # <<>> THEN [response |-> csrfError[1], session |-> s]
    ELSE IF body.apiKeyId = <<>> \/ body.apiSecret = <<>>
        THEN [response |-> Response(400, "API Key ID and Secret are required")[1],
              session |-> regenerateCsrfToken(s, n)]
    ELSE [response |-> Response(200, "")[1],
          session |-> regenerateCsrfToken(
                          [s EXCEPT !.apiKeyId = body.apiKeyId,
                                    !.apiSecret = body.apiSecret,
                                    !.isLoggedIn = TRUE], n)]

\* POST /api/auth/login: the response and the session it leaves
loginPOST(s, n, headers, body) ==
    LET csrfError == validateCsrfToken(POST_METHOD, headers, s.csrfToken, FALSE) IN
    IF csrfError # <<>> THEN [response |-> csrfError[1], session |-> s]
    ELSE IF body.apiKeyId = <<>> \/ body.apiSecret = <<>>
        THEN [response |-> Response(400, "API Key ID and Secret are required")[1], session |-> s]
    ELSE [response |-> Response(200, "")[1],
          session |-> regenerateCsrfToken(
                          [s EXCEPT !.apiKeyId = body.apiKeyId,
                                    !.apiSecret = body.apiSecret,
                                    !.isLoggedIn = TRUE], n)]

\* answers success and keeps the session
logoutPOSTKept(s, headers) ==
    LET csrfError == validateCsrfToken(POST_METHOD, headers, s.csrfToken, FALSE) IN
    IF csrfError # <<>> THEN [response |-> csrfError[1], session |-> s]
    ELSE [response |-> Response(200, "")[1], session |-> s]

\* POST /api/auth/logout
logoutPOST(s, headers) ==
    LET csrfError == validateCsrfToken(POST_METHOD, headers, s.csrfToken, FALSE) IN
    IF csrfError # <<>> THEN [response |-> csrfError[1], session |-> s]
    ELSE [response |-> Response(200, "")[1], session |-> NoSession]

\* what can be typed into a field of the login page
Credentials == {<<>>, <<" ">>, <<"k">>}

\* the apiKeyId or apiSecret of a request body: missing or given
BodyFields == {<<>>, <<"k">>}

\* the x-csrf-token a client other than the login page can send
AuthHeaders == {<<>>, <<(<<>>)>>} \cup {<<t>> : t \in Tokens}

\* what the backend API can do with a forwarded request
Upstreams ==
    {[throws |-> TRUE, status |-> 0]}
        \cup {[throws |-> FALSE, status |-> c] : c \in {200, 204, 401, 500}}

\* the record of a handled request
Handled(path, by, header, body, r) ==
    [route |-> path, by |-> by, header |-> header, body |-> body,
     before |-> session.csrfToken,
     status |-> r.response.status, error |-> r.response.error,
     renewed |-> /\ r.session.csrfToken # <<>>
                 /\ r.session.csrfToken[1] \notin Generated(generated),
     usedRetired |-> header # <<>> /\ header[1] \in retired,
     forwarded |-> <<>>]

\* the token counter after a handler that went from session s to session t
Count(s, t) == IF t.csrfToken # <<>> /\ t.csrfToken # s.csrfToken THEN generated + 1 ELSE generated

InitAuth ==
    /\ AuthIdle
    /\ DashIdle
    /\ CsrfIdle
    /\ LookbackIdle
    /\ WindowIdle
    /\ LevelIdle
    /\ ScorerIdle
    /\ EngineIdle
    /\ EffectIdle
    /\ PageIdle

\* GET of the CSRF endpoint
CsrfGet ==
    /\ generated < MaxTokens
    /\ LET t == getCsrfToken(session, generated) IN
        /\ session' = t
        /\ generated' = Count(session, t)
        /\ last' = Handled("csrf", "http", <<>>, <<>>, [response |-> Response(200, "")[1], session |-> t])
    /\ UNCHANGED <<retired, form, loggedOut>>
    /\ UNCHANGED otherThanAuth

\* GET of the session check
SessionGet ==
    /\ LET in == session.isLoggedIn /\ session.apiKeyId # <<>> /\ session.apiSecret # <<>> IN
        last' = Handled("session", "http", <<>>, <<>>,
                        [response |-> Response(IF in THEN 200 ELSE 401, "")[1], session |-> session])
    /\ UNCHANGED <<session, generated, retired, form, loggedOut>>
    /\ UNCHANGED otherThanAuth

\* a login request from any HTTP client
LoginRequest ==
    /\ generated < MaxTokens
    /\ \E h \in AuthHeaders, key \in BodyFields, secret \in BodyFields :
        LET body == [apiKeyId |-> key, apiSecret |-> secret]
            r == loginPOST(session, generated, WithCsrfHeader(h), body)
        IN  /\ session' = r.session
            /\ generated' = Count(session, r.session)
            /\ retired' = IF r.response.status = 200 THEN retired \cup {h[1]} ELSE retired
            /\ last' = Handled("login", "http", h, <<body>>, r)
            /\ loggedOut' = IF r.response.status = 200 THEN FALSE ELSE loggedOut
    /\ UNCHANGED form
    /\ UNCHANGED otherThanAuth

\* a logout request from any HTTP client
LogoutRequest ==
    /\ \E h \in AuthHeaders :
        LET r == logoutPOST(session, WithCsrfHeader(h)) IN
            /\ session' = r.session
            /\ last' = Handled("logout", "http", h, <<>>, r)
            /\ loggedOut' = IF r.response.status = 200 THEN TRUE ELSE loggedOut
    /\ UNCHANGED <<generated, retired, form>>
    /\ UNCHANGED otherThanAuth

\* a data request from any HTTP client, through proxyToBackend
ProxyRequest ==
    /\ \E u \in Upstreams :
        LET r == proxyToBackend(session, u) IN
            last' = [Handled("proxy", "http", <<>>, <<>>,
                             [response |-> r.response, session |-> session])
                        EXCEPT !.forwarded = IF r.forwarded THEN <<u>> ELSE <<>>]
    /\ UNCHANGED <<session, generated, retired, form, loggedOut>>
    /\ UNCHANGED otherThanAuth

\* the login page's onSubmit with a field left empty
SubmitEmpty ==
    /\ form.route = "/login"
    /\ \E key \in Credentials, secret \in Credentials :
        /\ key = <<>> \/ secret = <<>>
        /\ form' = [form EXCEPT !.error = "Please enter both API Key ID and Secret",
                                !.loading = FALSE]
    /\ UNCHANGED <<session, generated, retired, last, loggedOut>>
    /\ UNCHANGED otherThanAuth

\* the login page's onSubmit with both fields filled: its fetch and the answer
Submit ==
    /\ form.route = "/login"
    /\ generated < MaxTokens
    /\ \E key \in Credentials, secret \in Credentials :
        /\ key # <<>> /\ secret # <<>>
        /\ LET headers == [n \in {"Content-Type"} |-> <<"application/json">>]
               body == [apiKeyId |-> trim(key), apiSecret |-> trim(secret)]
               r == loginPOST(session, generated, headers, body)
           IN  /\ session' = r.session
               /\ generated' = Count(session, r.session)
               /\ retired' = IF r.response.status = 200
                             THEN retired \cup {HeadersGet(headers, CSRF_HEADER_NAME)[1]}
                             ELSE retired
               /\ last' = Handled("login", "form", HeadersGet(headers, CSRF_HEADER_NAME),
                                  <<[apiKeyId |-> key, apiSecret |-> secret]>>, r)
               /\ loggedOut' = IF r.response.status = 200 THEN FALSE ELSE loggedOut
               /\ form' = IF ~Ok(r.response.status)
                          THEN [form EXCEPT !.error = IF r.response.error # ""
                                                      THEN r.response.error
                                                      ELSE "Failed to save credentials",
                                            !.loading = FALSE]
                          ELSE [form EXCEPT !.error = "null", !.loading = TRUE,
                                            !.route = "/dashboard"]
    /\ UNCHANGED otherThanAuth

NextAuth ==
    \/ CsrfGet
    \/ SessionGet
    \/ LoginRequest
    \/ LogoutRequest
    \/ ProxyRequest
    \/ SubmitEmpty
    \/ Submit

SpecAuth == InitAuth /\ [][NextAuth]_vars

\* the login page sent the last request, to a session that held a CSRF token
FormPosted == last.by = "form" /\ last.before # <<>>

\* both fields of that submission had something other than blanks in them
FilledIn == \A b \in {last.body[1].apiKeyId, last.body[1].apiSecret} : trim(b) # <<>>

\* C19: the login form's POST to /api/auth/login, submitted with both
\* credentials non-empty by a client whose session holds a CSRF token, passes
\* validateCsrfToken and leaves a logged-in session.
C19_FormLoginPasses ==
    (FormPosted /\ FilledIn) => (Ok(last.status) /\ session.isLoggedIn /\ form.route = "/dashboard")

NonSafeRoutes == {"login", "logout"}

LoginSucceeded == last.route = "login" /\ last.status = 200

\* C20: after a login POST that succeeds the session's CSRF token is one never
\* generated before, and a token that authorized a successful login is never
\* the session's token again and gets 403 on every later login or logout POST.
C20_TokenRegenerated ==
    /\ LoginSucceeded => (last.renewed /\ session.csrfToken # last.before)
    /\ \A t \in retired : session.csrfToken # <<t>>
    /\ (last.route \in NonSafeRoutes /\ last.usedRetired) => last.status = 403

\* a POST that carried the token of an earlier successful login was answered
\* while the session held a token again
C20_Witness ==
    /\ last.route \in NonSafeRoutes
    /\ last.usedRetired
    /\ last.before # <<>>
    /\ session.isLoggedIn

\* ==================================================== the lookback figures
\* A JSON object is a function from its keys to <<value>>, or to <<>> for a
\* null; a missing object is <<>> as well.
LookbackKeys == <<"today", "7d", "30d", "90d", "1y", "total">>

KeyIndex(key) == CHOOSE i \in 1..Len(LookbackKeys) : LookbackKeys[i] = key

KeySet == {LookbackKeys[i] : i \in 1..Len(LookbackKeys)}

\* obj?.[key]
Get(obj, key) ==
    IF obj = <<>> THEN <<>>
    ELSE IF key \in DOMAIN obj[1] THEN obj[1][key]
    ELSE <<>>

\* x ?? d, with an undefined left standing
NullishOrNaN(x, d) == IF x = <<>> THEN NaN ELSE x[1]

\* x ?? d
NullishOr(x, d) == IF x = <<>> THEN d ELSE x[1]

\* x || d, on a number or nothing
LogicalOr(x, d) == IF x = <<>> \/ IsNaN(x[1]) \/ x[1] = Zero THEN d ELSE x[1]

\* the KPI cards' port and spy of one key (page.tsx)
cardValue(s, side, key) == NullishOr(Get(Get(Get(s, "lookbacks"), side), key), Zero)

\* todayReturn ... totalReturn of the analytics dashboard (part_001)
tileValue(performanceData, key) ==
    LogicalOr(Get(Get(Get(Get(performanceData, "stats"), "lookbacks"), "portfolio"), key), Zero)

\* the figures a response can hold under the keys it has
SuppliedValues == <<(<<Norm(0 - 1, 2)>>), (<<Zero>>), (<<Norm(1, 2)>>), (<<>>)>>

PresentKeys == {{}, KeySet, {"today", "total"}, {"7d", "30d", "90d", "1y"}}

SideRecords ==
    {[key \in K |-> SuppliedValues[((KeyIndex(key) + p) % Len(SuppliedValues)) + 1]] :
        K \in PresentKeys, p \in 1..Len(SuppliedValues)}

SideOptions == {<<>>} \cup {<<r>> : r \in SideRecords}

LookbackOptions == {<<>>} \cup {<<l>> : l \in [portfolio : SideOptions, sp500 : SideOptions]}

PerfSet ==
    {<<>>, <<[stats |-> <<>>]>>} \cup {<<[stats |-> <<[lookbacks |-> l]>>]>> : l \in LookbackOptions}

InitLookback ==
    /\ perf \in PerfSet
    /\ cards = <<>>
    /\ tiles = <<>>
    /\ DashIdle
    /\ AuthIdle
    /\ CsrfIdle
    /\ WindowIdle
    /\ LevelIdle
    /\ ScorerIdle
    /\ EngineIdle
    /\ EffectIdle
    /\ PageIdle

\* DashboardContent renders after run() stored json.stats: nothing when there
\* are no stats, else the six cards with port and spy
RenderCards ==
    /\ cards = <<>>
    /\ perf # <<>>
    /\ LET s == Get(perf, "stats") IN
        cards' = <<IF s = <<>> THEN <<>>
                   ELSE <<[side \in {"portfolio", "sp500"} |->
                             [key \in KeySet |-> cardValue(s, side, key)]]>>>>
    /\ UNCHANGED <<perf, tiles>>
    /\ UNCHANGED otherThanLookback

\* DashboardPage renders, before or after loadData stored the response
RenderTiles ==
    /\ tiles = <<>>
    /\ tiles' = <<[key \in KeySet |-> tileValue(perf, key)]>>
    /\ UNCHANGED <<perf, cards>>
    /\ UNCHANGED otherThanLookback

NextLookback ==
    \/ RenderCards
    \/ RenderTiles

SpecLookback == InitLookback /\ [][NextLookback]_vars

\* the response holds a number for this side and key
Supplied(side, key) ==
    /\ perf # <<>>
    /\ perf[1].stats # <<>>
    /\ perf[1].stats[1].lookbacks # <<>>
    /\ perf[1].stats[1].lookbacks[1][side] # <<>>
    /\ key \in DOMAIN perf[1].stats[1].lookbacks[1][side][1]
    /\ perf[1].stats[1].lookbacks[1][side][1][key] # <<>>

Expected(side, key) ==
    IF Supplied(side, key) THEN perf[1].stats[1].lookbacks[1][side][1][key][1] ELSE Zero

CardsShown == cards # <<>> /\ cards[1] # <<>>

TilesShown == tiles # <<>>

\* C11: for each of the six lookback keys, and for the portfolio and the
\* benchmark, the figure a dashboard uses is the supplied number when the
\* lookbacks record, the side's record and the key are present, and 0 when the
\* stats, the lookbacks record, the side's record or the key is absent; every
\* figure is a number.
C11_LookbackDefaults ==
    /\ CardsShown =>
            \A side \in {"portfolio", "sp500"}, key \in KeySet :
                /\ cards[1][1][side][key] = Expected(side, key)
                /\ IsFinite(cards[1][1][side][key])
    /\ TilesShown =>
            \A key \in KeySet :
                /\ tiles[1][key] = Expected("portfolio", key)
                /\ IsFinite(tiles[1][key])

\* both dashboards rendered a response with a supplied non-zero figure, a
\* missing key and no benchmark record at all
C11_Witness ==
    /\ CardsShown
    /\ TilesShown
    /\ Supplied("portfolio", "today") /\ cards[1][1].portfolio.today # Zero
    /\ ~Supplied("portfolio", "7d") /\ cards[1][1].portfolio["7d"] = Zero
    /\ perf[1].stats[1].lookbacks[1].sp500 = <<>>
    /\ tiles[1].today = cards[1][1].portfolio.today

\* ======================================== LookbackReturnCalculator (spec 4.4)
\* the fixed trading-day offset of a window key, on a series of n points
offset(key, n) ==
    CASE key = "today" -> 1
      [] key = "7d" -> 7
      [] key = "30d" -> 30
      [] key = "90d" -> 90
      [] key = "1y" -> 365
      [] key = "total" -> n

\* value[last] / value[last - offset] - 1 on index offsets, 0 when the series
\* has no index last - offset (arrays here start at 1, so last is Len(vals))
lookbackReturn(vals, key) ==
    LET lastIdx == Len(vals)
        baseIdx == lastIdx - offset(key, Len(vals))
    IN  IF baseIdx >= 1 THEN Sub(Div(vals[lastIdx], vals[baseIdx]), One) ELSE Zero

LookbackReturns(vals) == [key \in KeySet |-> lookbackReturn(vals, key)]

\* series lengths on both sides of every offset
SeriesLengths == {1, 2, 3, 7, 8, 9, 30, 31, 32, 90, 91, 92, 365, 366}

\* a series of positive values: constant for step 3, else cycling through 1, 2, 3
SeriesOf(n, step) == [i \in 1..n |-> I(1 + ((i * step) % 3))]

SeriesSet == {SeriesOf(n, step) : n \in SeriesLengths, step \in 1..3}

InitWindow ==
    /\ series \in SeriesSet
    /\ windowed = <<>>
    /\ totalRow = <<>>
    /\ DashIdle
    /\ AuthIdle
    /\ CsrfIdle
    /\ LookbackIdle
    /\ LevelIdle
    /\ ScorerIdle
    /\ EngineIdle
    /\ EffectIdle
    /\ PageIdle

ComputeLookbacks ==
    /\ windowed = <<>>
    /\ windowed' = <<LookbackReturns(series)>>
    /\ UNCHANGED <<series, totalRow>>
    /\ UNCHANGED otherThanWindow

\* the risk table's "Total %" row of the same series
RenderTotalRow ==
    /\ totalRow = <<>>
    /\ totalRow' = <<totalPct(series)>>
    /\ UNCHANGED <<series, windowed>>
    /\ UNCHANGED otherThanWindow

NextWindow ==
    \/ ComputeLookbacks
    \/ RenderTotalRow

SpecWindow == InitWindow /\ [][NextWindow]_vars

BothComputed == windowed # <<>> /\ totalRow # <<>>

FixedWindows == {"today", "7d", "30d", "90d", "1y"}

Days(key) == offset(key, 0)

FirstToLast == Sub(Div(series[Len(series)], series[1]), One)

\* the return of a fixed window is right: scaled back by it, the last value
\* gives the value offset points earlier; 0 when the series is too short
WindowRight(key) ==
    IF Len(series) > Days(key)
    THEN Mul(Add(One, windowed[1][key]), series[Len(series) - Days(key)]) = series[Len(series)]
    ELSE windowed[1][key] = Zero

ScoreSteps == 2

\* spec 4.6 step 8: the threshold table
riskLevel(riskScore) ==
    IF Le(riskScore, I(25)) THEN "Low"
    ELSE IF Le(riskScore, I(50)) THEN "Moderate"
    ELSE IF Le(riskScore, I(75)) THEN "Elevated"
    ELSE "High"

\* the class with the upper comparison turned into >=
severityClassAtLeast(risk_score) ==
    IF ~Lt(risk_score, I(50)) /\ ~IsNaN(risk_score) THEN "negative"
    ELSE IF Gt(risk_score, I(25)) THEN "warning"
    ELSE "positive"

\* risk_score > 50 ? 'negative' : risk_score > 25 ? 'warning' : 'positive'
severityClass(risk_score) ==
    IF Gt(risk_score, I(50)) THEN "negative"
    ELSE IF Gt(risk_score, I(25)) THEN "warning"
    ELSE "positive"

\* the scores of [0, 100] in steps of 1/ScoreSteps
Scores == {Norm(n, ScoreSteps) : n \in 0..(100 * ScoreSteps)}

InitLevel ==
    /\ score \in Scores
    /\ level = <<>>
    /\ severity = <<>>
    /\ DashIdle
    /\ AuthIdle
    /\ CsrfIdle
    /\ LookbackIdle
    /\ WindowIdle
    /\ ScorerIdle
    /\ EngineIdle
    /\ EffectIdle
    /\ PageIdle

\* DeviationScorer derives the level of the score
DeriveLevel ==
    /\ level = <<>>
    /\ level' = <<riskLevel(score)>>
    /\ UNCHANGED <<score, severity>>
    /\ UNCHANGED otherThanLevel

\* the deviation table renders the row's score cell
RenderScoreCell ==
    /\ severity = <<>>
    /\ severity' = <<severityClass(score)>>
    /\ UNCHANGED <<score, level>>
    /\ UNCHANGED otherThanLevel

NextLevel ==
    \/ DeriveLevel
    \/ RenderScoreCell

SpecLevel == InitLevel /\ [][NextLevel]_vars

\* score <= bound, on the fraction itself
AtMost(bound) == score.n <= bound * score.d

RowDone == level # <<>> /\ severity # <<>>

\* C13: riskLevel gives every score one level, Low iff score <= 25, Moderate
\* iff 25 < score <= 50, Elevated iff 50 < score <= 75, High iff score > 75,
\* and the table's class is 'positive' exactly for Low, 'warning' exactly for
\* Moderate and 'negative' exactly for Elevated or High, at every score of
\* [0, 100].
C13_LevelsAndSeverity ==
    RowDone =>
        /\ level[1] \in {"Low", "Moderate", "Elevated", "High"}
        /\ level[1] = "Low" <=> AtMost(25)
        /\ level[1] = "Moderate" <=> (~AtMost(25) /\ AtMost(50))
        /\ level[1] = "Elevated" <=> (~AtMost(50) /\ AtMost(75))
        /\ level[1] = "High" <=> ~AtMost(75)
        /\ severity[1] = "positive" <=> level[1] = "Low"
        /\ severity[1] = "warning" <=> level[1] = "Moderate"
        /\ severity[1] = "negative" <=> level[1] \in {"Elevated", "High"}

\* a row whose score sits on the threshold 50: still Moderate, still 'warning'
C13_Witness ==
    /\ RowDone
    /\ score = I(50)
    /\ level[1] = "Moderate"
    /\ severity[1] = "warning"

\* ================================================ DeviationScorer (spec 4.6)
\* A valuation series is a function from its dates to its values.

\* the largest r in lo..hi with r * r <= x
RECURSIVE ISqrtBetween(_, _, _)
ISqrtBetween(x, lo, hi) ==
    IF lo >= hi THEN lo
    ELSE LET mid == (lo + hi + 1) \div 2 IN
         IF mid * mid <= x THEN ISqrtBetween(x, mid, hi) ELSE ISqrtBetween(x, lo, mid - 1)

ISqrt(x) == ISqrtBetween(x, 0, IF x < 46340 THEN x ELSE 46340)

IsSquare(x) == ISqrt(x) * ISqrt(x) = x

\* the square root of a fraction >= 0: exact when it is a fraction itself, else
\* rounded down to two decimals
Sqrt(a) ==
    IF IsSquare(a.n) /\ IsSquare(a.d) THEN Norm(ISqrt(a.n), ISqrt(a.d))
    ELSE Norm(ISqrt((a.n * 10000) \div a.d), 100)

clamp(x, lo, hi) == MathMax(lo, MathMin(x, hi))

\* a ratio with the sentinel 0 for a zero denominator (spec 4.2, 7)
Ratio(a, b) == IF b = Zero THEN Zero ELSE Div(a, b)

\* step 1: the dates both series have, in order, and the values on them
RECURSIVE SortedDates(_)
SortedDates(S) ==
    IF S = {} THEN <<>>
    ELSE LET first == CHOOSE d \in S : \A e \in S : d <= e
         IN  <<first>> \o SortedDates(S \ {first})

CommonDates(live, backtest) == SortedDates(DOMAIN live \cap DOMAIN backtest)

Aligned(srs, dates) == [i \in 1..Len(dates) |-> I(srs[dates[i]])]

\* ReturnSeries of spec 3: return[i] = value[i+1] / value[i] - 1
ReturnSeries(vals) == [i \in 1..(Len(vals) - 1) |-> Sub(Div(vals[i + 1], vals[i]), One)]

\* sample variance, n - 1 denominator, 0 when there is no second observation
sampleVariance(arr) ==
    LET m == Ratio(Sum(arr), I(Len(arr))) IN
    Ratio(Sum([i \in 1..Len(arr) |-> Mul(Sub(arr[i], m), Sub(arr[i], m))]), I(Len(arr) - 1))

sampleStdDev(arr) == Sqrt(sampleVariance(arr))

sampleCovariance(a, b) ==
    LET ma == Ratio(Sum(a), I(Len(a)))
        mb == Ratio(Sum(b), I(Len(b)))
    IN  Ratio(Sum([i \in 1..Len(a) |-> Mul(Sub(a[i], ma), Sub(b[i], mb))]), I(Len(a) - 1))

\* the covariance alone, not divided by the deviations
pearsonCovariance(a, b) == sampleCovariance(a, b)

\* step 3, before clamping: the sample Pearson correlation coefficient
pearson(a, b) ==
    Ratio(sampleCovariance(a, b), Sqrt(Mul(sampleVariance(a), sampleVariance(b))))

\* step 4: cumulative change from the first aligned value
CumulativePct(vals) == [i \in 1..Len(vals) |-> Sub(Div(vals[i], vals[1]), One)]

AbsDifferences(a, b) == [i \in 1..Len(a) |-> MathAbs(Sub(a[i], b[i]))]

\* step 7: the composite score, weights 0.4 / 0.3 / 0.3
riskScoreOf(trackingError, correlation, meanDeviation) ==
    clamp(Add(Add(Mul(Norm(2, 5), trackingError),
                  Mul(Mul(Norm(3, 10), Sub(One, correlation)), I(100))),
              Mul(Norm(3, 10), meanDeviation)),
          Zero, I(100))

NoNumbers ==
    [riskScore |-> Zero, riskLevel |-> "", trackingErrorAnnualizedPct |-> Zero,
     correlation |-> Zero, meanDeviationPct |-> Zero, maxDeviationPct |-> Zero,
     liveReturnPct |-> Zero, backtestReturnPct |-> Zero, returnDifferencePct |-> Zero,
     periodDays |-> 0]

DataError == [error |-> "DataError", result |-> NoNumbers]

NonPositive(srs) == \E d \in DOMAIN srs : srs[d] <= 0

DeviationScorer(live, backtest) ==
    LET dates == CommonDates(live, backtest) IN
    IF Len(dates) < 2 \/ NonPositive(live) \/ NonPositive(backtest) THEN DataError
    ELSE
    LET liveVals == Aligned(live, dates)
        btVals == Aligned(backtest, dates)
        liveReturn == ReturnSeries(liveVals)
        btReturn == ReturnSeries(btVals)
        diff == [i \in 1..Len(liveReturn) |-> Sub(liveReturn[i], btReturn[i])]
        trackingError == Mul(Mul(sampleStdDev(diff), Sqrt(I(TradingDays))), I(100))
        correlation == clamp(pearson(liveReturn, btReturn), Neg(One), One)
        deviations == AbsDifferences(CumulativePct(liveVals), CumulativePct(btVals))
        meanDeviation == Mul(mean(deviations), I(100))
        maxDeviation == Mul(MaxFrom(deviations, 1, Zero), I(100))
        liveReturnPct == Mul(Sub(Div(liveVals[Len(liveVals)], liveVals[1]), One), I(100))
        btReturnPct == Mul(Sub(Div(btVals[Len(btVals)], btVals[1]), One), I(100))
        riskScore == riskScoreOf(trackingError, correlation, meanDeviation)
    IN  [error |-> "",
         result |->
           [riskScore |-> riskScore, riskLevel |-> riskLevel(riskScore),
            trackingErrorAnnualizedPct |-> trackingError,
            correlation |-> correlation,
            meanDeviationPct |-> meanDeviation, maxDeviationPct |-> maxDeviation,
            liveReturnPct |-> liveReturnPct, backtestReturnPct |-> btReturnPct,
            returnDifferencePct |-> Sub(liveReturnPct, btReturnPct),
            periodDays |-> Len(dates)]]

\* ------------------------------------------- one invocation on a drawn pair
MaxDates == 3

ScorerDates == 1..MaxDates

\* a value of 0 is the data-quality defect of spec 3
ScorerValues == {0, 1, 2}

AllSeries == UNION {[D -> ScorerValues] : D \in SUBSET ScorerDates}

Reversed(srs) ==
    LET dates == SortedDates(DOMAIN srs) IN
    [d \in DOMAIN srs |->
        srs[dates[Len(dates) + 1 - (CHOOSE i \in 1..Len(dates) : dates[i] = d)]]]

\* the backtests scored against a live series: itself, a multiple, its values
\* in reverse order, one starting a date later, a flat one, and two ramps over
\* all dates
BacktestsFor(live) ==
    {live,
     [d \in DOMAIN live |-> 2 * live[d]],
     Reversed(live),
     [d \in DOMAIN live \ {1} |-> live[d]],
     [d \in DOMAIN live |-> 1],
     [d \in ScorerDates |-> d],
     [d \in ScorerDates |-> MaxDates + 1 - d]}

InitScorer ==
    /\ pair \in UNION {{[live |-> l, backtest |-> b] : b \in BacktestsFor(l)} : l \in AllSeries}
    /\ deviation = <<>>
    /\ DashIdle
    /\ AuthIdle
    /\ CsrfIdle
    /\ LookbackIdle
    /\ WindowIdle
    /\ LevelIdle
    /\ EngineIdle
    /\ EffectIdle
    /\ PageIdle

Score ==
    /\ deviation = <<>>
    /\ deviation' = <<DeviationScorer(pair.live, pair.backtest)>>
    /\ UNCHANGED pair
    /\ UNCHANGED otherThanScorer

NextScorer == Score

SpecScorer == InitScorer /\ [][NextScorer]_vars

Scored == deviation # <<>> /\ deviation[1].error = ""

Identical == pair.live = pair.backtest

\* the live series does not grow by the same factor from each date to the next
ReturnsVary ==
    LET Steps == {st \in (DOMAIN pair.live) \X (DOMAIN pair.live) :
                    /\ st[1] < st[2]
                    /\ ~\E d \in DOMAIN pair.live : st[1] < d /\ d < st[2]}
    IN  \E s1 \in Steps, s2 \in Steps :
            pair.live[s1[2]] * pair.live[s2[1]] # pair.live[s2[2]] * pair.live[s1[1]]

CorrelationInRange ==
    /\ Le(Neg(One), deviation[1].result.correlation)
    /\ Le(deviation[1].result.correlation, One)

NumSymphonies == 3

Symphonies == 1..NumSymphonies

Levels == {"Low", "Moderate", "Elevated", "High"}

\* the results handed to the aggregator, in symphony order: the
\* SymphonyDeviation of every invocation that succeeded, with its currentValue
RECURSIVE ResultsFrom(_, _, _)
ResultsFrom(ins, outs, s) ==
    IF s > Len(outs) THEN <<>>
    ELSE (IF outs[s] # <<>> /\ outs[s][1].error = ""
          THEN <<[id |-> s, deviation |-> outs[s][1].result,
                  currentValue |-> I(ins[s].currentValue)]>>
          ELSE <<>>) \o ResultsFrom(ins, outs, s + 1)

RiskScores(results) == [i \in 1..Len(results) |-> results[i].deviation.riskScore]

CurrentValues(results) == [i \in 1..Len(results) |-> results[i].currentValue]

\* the sum of a list of numbers, every partial sum computed once
RECURSIVE Total(_)
Total(xs) ==
    IF Len(xs) = 0 THEN Zero
    ELSE CHOOSE t \in {Add(x, rest) : x \in {xs[1]},
                                      rest \in {Total([i \in 1..(Len(xs) - 1) |-> xs[i + 1]])}} :
             TRUE

\* the ratio of two sums, each sum computed once
RatioOf(num, den) == CHOOSE q \in {Ratio(n, d) : n \in {num}, d \in {den}} : TRUE

\* the plain average of the scores
weightedAvgRiskScoreUnweighted(results) ==
    RatioOf(Total(RiskScores(results)), I(Len(results)))

\* sum(riskScore_i * value_i) / sum(value_i), 0 if the total value is 0
weightedAvgRiskScore(results) ==
    RatioOf(Total([i \in 1..Len(results) |->
                      Mul(results[i].deviation.riskScore, results[i].currentValue)]),
            Total(CurrentValues(results)))

riskLevelCounts(results) ==
    [lvl \in Levels |->
        Cardinality({i \in 1..Len(results) : results[i].deviation.riskLevel = lvl})]

PortfolioAggregator(results) ==
    [totalSymphonies |-> Len(results),
     totalPortfolioValue |-> Total(CurrentValues(results)),
     weightedAvgRiskScore |-> weightedAvgRiskScore(results),
     riskLevelCounts |-> riskLevelCounts(results),
     avgTrackingErrorPct |->
        RatioOf(Total([i \in 1..Len(results) |->
                          results[i].deviation.trackingErrorAnnualizedPct]),
                I(Len(results))),
     avgCorrelation |->
        RatioOf(Total([i \in 1..Len(results) |-> results[i].deviation.correlation]),
                I(Len(results)))]

\* the symphonies a run can hold: live and backtest series over dates 1, 2, ...
\* and a currentValue
Holdings ==
    <<[live |-> <<1, 2, 1>>, backtest |-> <<1, 2, 1>>, currentValue |-> 1],
     [live |-> <<1, 1>>, backtest |-> <<1, 1>>, currentValue |-> 1],
     [live |-> <<1, 3>>, backtest |-> <<1, 1>>, currentValue |-> 2],
     [live |-> <<1, 5>>, backtest |-> <<1, 1>>, currentValue |-> 1],
     [live |-> <<1, 2, 1>>, backtest |-> <<1, 2, 1>>, currentValue |-> 0],
     [live |-> <<1>>, backtest |-> <<1, 2>>, currentValue |-> 1],
     [live |-> <<1, 0>>, backtest |-> <<1, 2>>, currentValue |-> 2]>>

\* DeviationScorer is a pure function of its pair: what it returns on each of
\* the holdings, worked out once
RECURSIVE ScoreAll(_)
ScoreAll(hs) ==
    IF hs = <<>> THEN <<>>
    ELSE <<DeviationScorer(Head(hs).live, Head(hs).backtest)>> \o ScoreAll(Tail(hs))

ScoredHoldings == ScoreAll(Holdings)

Invoke(in) == ScoredHoldings[CHOOSE h \in 1..Len(Holdings) : Holdings[h] = in]

\* the portfolios of a run: the invocations are alike, so one order of the
\* symphonies stands for all of them
Portfolios ==
    {[s \in Symphonies |-> Holdings[f[s]]] :
        f \in {g \in [Symphonies -> 1..Len(Holdings)] :
                  \A s \in Symphonies : s = 1 \/ g[s - 1] <= g[s]}}

\* the symphonies whose invocation ends with the one of s when that one fails
FailureScopeAll(s) == Symphonies

FailureScope(s) == {s}

\* the join: every invocation has ended
ReadyEarly == \E s \in Symphonies : phase[s] \in {"done", "failed"}

Ready == \A s \in Symphonies : phase[s] \in {"done", "failed"}

InitEngine ==
    /\ inputs \in Portfolios
    /\ phase = [s \in Symphonies |-> "pending"]
    /\ outcome = [s \in Symphonies |-> <<>>]
    /\ summary = <<>>
    /\ DashIdle
    /\ AuthIdle
    /\ CsrfIdle
    /\ LookbackIdle
    /\ WindowIdle
    /\ LevelIdle
    /\ ScorerIdle
    /\ EffectIdle
    /\ PageIdle

\* a worker takes up the invocation of symphony s
Start(s) ==
    /\ phase[s] = "pending"
    /\ phase' = [phase EXCEPT ![s] = "running"]
    /\ UNCHANGED <<inputs, outcome, summary>>
    /\ UNCHANGED otherThanEngine

\* the invocation of symphony s ends: with its SymphonyDeviation, or with a
\* DataError reported for it
Finish(s) ==
    /\ phase[s] = "running"
    /\ LET r == Invoke(inputs[s]) IN
        IF r.error = ""
        THEN /\ phase' = [phase EXCEPT ![s] = "done"]
             /\ outcome' = [outcome EXCEPT ![s] = <<r>>]
        ELSE /\ phase' = [t \in Symphonies |->
                              IF t \in FailureScope(s) THEN "failed" ELSE phase[t]]
             /\ outcome' = [t \in Symphonies |->
                              IF t \in FailureScope(s) THEN <<r>> ELSE outcome[t]]
    /\ UNCHANGED <<inputs, summary>>
    /\ UNCHANGED otherThanEngine

\* the PortfolioAggregator runs on the results of the invocations that succeeded
Aggregate ==
    /\ summary = <<>>
    /\ Ready
    /\ \E results \in {ResultsFrom(inputs, outcome, 1)} :
           summary' = <<PortfolioAggregator(results)>>
    /\ UNCHANGED <<inputs, phase, outcome>>
    /\ UNCHANGED otherThanEngine

NextEngine ==
    \/ \E s \in Symphonies : Start(s)
    \/ \E s \in Symphonies : Finish(s)
    \/ Aggregate

SpecEngine == InitEngine /\ [][NextEngine]_vars

\* every worker gets to run, and so does the aggregator
SpecEngineFair ==
    /\ SpecEngine
    /\ \A s \in Symphonies : WF_vars(Start(s)) /\ WF_vars(Finish(s))
    /\ WF_vars(Aggregate)

\* ------------------------------------------------------ reading a run
Produced == summary # <<>>

Ended(s) == phase[s] \in {"done", "failed"}

Succeeded == {s \in Symphonies : outcome[s] # <<>> /\ outcome[s][1].error = ""}

ValueOf(s) == I(inputs[s].currentValue)

ScoreOf(s) == outcome[s][1].result.riskScore

RECURSIVE TotalValue(_)
TotalValue(S) ==
    IF S = {} THEN Zero
    ELSE LET s == CHOOSE x \in S : TRUE IN Add(ValueOf(s), TotalValue(S \ {s}))

RECURSIVE TotalScore(_)
TotalScore(S) ==
    IF S = {} THEN Zero
    ELSE LET s == CHOOSE x \in S : TRUE IN Add(ScoreOf(s), TotalScore(S \ {s}))

RECURSIVE TotalWeighted(_)
TotalWeighted(S) ==
    IF S = {} THEN Zero
    ELSE LET s == CHOOSE x \in S : TRUE
         IN  Add(Mul(ScoreOf(s), ValueOf(s)), TotalWeighted(S \ {s}))

EqualPositiveValues ==
    /\ Succeeded # {}
    /\ \A s \in Succeeded, t \in Succeeded : inputs[s].currentValue = inputs[t].currentValue
    /\ \A s \in Succeeded : inputs[s].currentValue > 0

\* C15: weightedAvgRiskScore is sum(riskScore_i * value_i) / sum(value_i), is 0
\* when the total value is 0 (no results included), and is the plain mean of
\* the riskScores when all symphonies have the same positive currentValue.
C15_WeightedAverage ==
    Produced =>
        /\ TotalValue(Succeeded) = Zero => summary[1].weightedAvgRiskScore = Zero
        /\ TotalValue(Succeeded) # Zero =>
              Mul(summary[1].weightedAvgRiskScore, TotalValue(Succeeded))
                  = TotalWeighted(Succeeded)
        /\ EqualPositiveValues =>
              Mul(summary[1].weightedAvgRiskScore, I(Cardinality(Succeeded)))
                  = TotalScore(Succeeded)

\* a summary over symphonies of unequal values and unequal scores
C15_Witness ==
    /\ Produced
    /\ \E s \in Succeeded, t \in Succeeded :
          /\ inputs[s].currentValue > inputs[t].currentValue
          /\ inputs[t].currentValue > 0
          /\ ScoreOf(s) # ScoreOf(t)
    /\ summary[1].weightedAvgRiskScore # Zero

\* the input of s has at least 2 aligned dates and only positive values
ValidInput(s) ==
    /\ Cardinality(DOMAIN inputs[s].live \cap DOMAIN inputs[s].backtest) >= 2
    /\ \A d \in DOMAIN inputs[s].live : inputs[s].live[d] > 0
    /\ \A d \in DOMAIN inputs[s].backtest : inputs[s].backtest[d] > 0

Isolated ==
    \A s \in Symphonies :
        /\ Ended(s) <=> outcome[s] # <<>>
        /\ phase[s] = "failed" => (~ValidInput(s) /\ outcome[s][1].error = "DataError")
        /\ phase[s] = "done" =>
              /\ ValidInput(s)
              /\ outcome[s][1] = DeviationScorer(inputs[s].live, inputs[s].backtest)

AllValidDone == \A s \in Symphonies : ValidInput(s) => phase[s] = "done"

\* C16: a DataError is reported for the symphony it occurred in only: in every
\* interleaving each symphony with valid input ends with the SymphonyDeviation
\* its own series give, whatever has failed meanwhile.
C16_DataErrorIsolated == [](Isolated) /\ <>[](AllValidDone)

\* one invocation has failed while another is done and a third still runs
C16_Witness ==
    \E s \in Symphonies, t \in Symphonies, u \in Symphonies :
        /\ phase[s] = "failed"
        /\ phase[t] = "done"
        /\ phase[u] = "running"

AllEnded == \A s \in Symphonies : Ended(s)

CountsAddUp ==
    /\ summary[1].totalSymphonies = Cardinality(Succeeded)
    /\ summary[1].totalSymphonies =
          summary[1].riskLevelCounts["Low"] + summary[1].riskLevelCounts["Moderate"]
          + summary[1].riskLevelCounts["Elevated"] + summary[1].riskLevelCounts["High"]

\* C17: the PortfolioRiskSummary is never produced before every invocation
\* has ended, is eventually produced once they all have, and its
\* totalSymphonies is the number of results aggregated and the sum of the four
\* riskLevelCounts.
C17_AggregatorIsBarrier ==
    /\ [](Produced => (AllEnded /\ CountsAddUp))
    /\ (AllEnded ~> Produced)

\* a summary of two results beside one failed invocation
C17_Witness ==
    /\ Produced
    /\ \E s \in Symphonies : phase[s] = "failed"
    /\ summary[1].totalSymphonies = NumSymphonies - 1
    /\ summary[1].riskLevelCounts["Low"] = 1

\* --------------------------------------------------------- claims C21..C23
\* the step handled a login or logout POST and answered 403, or 400 for a login
Rejected ==
    /\ last'.route \in NonSafeRoutes
    /\ \/ last'.status = 403
       \/ last'.route = "login" /\ last'.status = 400

\* C21: a login or logout POST rejected by CSRF validation (403), and a login
\* POST rejected for a missing apiKeyId or apiSecret (400), leaves the session's
\* isLoggedIn, apiKeyId, apiSecret and csrfToken as they were.
C21_RejectedLeavesSession == [][Rejected => session' = session]_vars

\* a login POST with a missing field was answered 400 on a logged-in session
\* that holds credentials and a token
C21_Witness ==
    /\ last.route = "login"
    /\ last.status = 400
    /\ session.isLoggedIn
    /\ session.csrfToken # <<>>
    /\ \E b \in {last.body[1].apiKeyId, last.body[1].apiSecret} : b # <<>>

\* the session holds a login with both credentials
HasCredentials == session.isLoggedIn /\ session.apiKeyId # <<>> /\ session.apiSecret # <<>>

Proxied == last.route = "proxy"

\* C22: proxyToBackend sends a request to the backend API only for a session
\* with isLoggedIn and both credentials, answers 401 without contacting the
\* backend otherwise, and when it forwards answers with the backend's status,
\* with 500 only when the forwarding throws.
C22_ProxyGuardsAndRelays ==
    Proxied =>
        /\ last.forwarded # <<>> => HasCredentials
        /\ ~HasCredentials => (last.status = 401 /\ last.forwarded = <<>>)
        /\ last.forwarded # <<>> =>
              last.status = (IF last.forwarded[1].throws THEN 500
                             ELSE last.forwarded[1].status)

LogoutSucceeded == last.route = "logout" /\ last.status = 200

\* C23: a logout POST that answers success destroys the session, and from
\* then until a login succeeds the session check answers 401 and
\* proxyToBackend answers 401 without contacting the backend, whatever other
\* requests come in between.
C23_LoggedOutStaysOut ==
    /\ LogoutSucceeded => session = NoSession
    /\ loggedOut =>
          /\ ~session.isLoggedIn
          /\ last.route = "session" => last.status = 401
          /\ Proxied => (last.status = 401 /\ last.forwarded = <<>>)

\* a data request answered 401 after the logout of a session that had logged
\* in and has got a new token since
C23_Witness ==
    /\ loggedOut
    /\ retired # {}
    /\ session.csrfToken # <<>>
    /\ Proxied
    /\ last.status = 401

\* ------------------------------------- the fetch effect under query changes
MaxRuns == 3

QueryStrings == {"", "?start=a"}

\* the ApiResponse the API sends to the n-th run, told apart by its date
Body(n) ==
    [data |-> <<[date |-> n, portfolio |-> 1, sp500 |-> 1]>>, stats |-> <<n>>]

\* how fetch settles: a 401, a response that is not ok, a rejection, or ok
FetchOutcomes == {"401", "500", "throws", "ok"}

\* how res.json() settles
JsonOutcomes == {"throws", "parsed"}

\* every run sets the state, superseded or not
LiveAlways(run) == TRUE

\* !cancelled, as the run reads it after an await
Live(run) == ~run.cancelled

\* the cleanup the effect returned: cancelled = true in the closure of the
\* run it was returned for, which is the latest
Cleanup(rs) ==
    [i \in 1..Len(rs) |-> IF i = Len(rs) THEN [rs[i] EXCEPT !.cancelled = TRUE] ELSE rs[i]]

\* run() up to its first await, in a render with query string q:
\* setLoading(true), setError(null), then the redirect and finally's
\* setLoading(false) without credentials, else the fetch is sent
NewRun(q) ==
    [qs |-> q, pc |-> IF creds THEN "fetch" ELSE "done", cancelled |-> FALSE,
     outcome |-> IF creds THEN "none" ELSE "login"]

\* the component is mounted and its effect has run for the first time
InitEffect ==
    /\ creds \in BOOLEAN
    /\ qs \in QueryStrings
    /\ mounted = TRUE
    /\ runs = <<NewRun(qs)>>
    /\ loading = creds
    /\ error = Null
    /\ data = <<>>
    /\ stats = <<>>
    /\ route = IF creds THEN "/dashboard" ELSE "/login"
    /\ pc = "pending"
    /\ stale = FALSE
    /\ screen = "loading"
    /\ calc = NoCalc
    /\ AuthIdle
    /\ CsrfIdle
    /\ LookbackIdle
    /\ WindowIdle
    /\ LevelIdle
    /\ ScorerIdle
    /\ EngineIdle
    /\ PageIdle

\* the query string changes: React runs the cleanup of the last run, then the
\* effect again
ChangeQuery ==
    /\ mounted
    /\ Len(runs) < MaxRuns
    /\ \E q \in QueryStrings \ {qs} :
        /\ qs' = q
        /\ runs' = Append(Cleanup(runs), NewRun(q))
    /\ loading' = creds
    /\ error' = Null
    /\ route' = IF creds THEN route ELSE "/login"
    /\ UNCHANGED <<mounted, creds, data, stats, pc, stale, screen, calc>>
    /\ UNCHANGED otherThanEffect

\* the component unmounts: React runs the cleanup of the last run
Unmount ==
    /\ mounted
    /\ mounted' = FALSE
    /\ runs' = Cleanup(runs)
    /\ UNCHANGED <<qs, creds, data, stats, error, loading, route, pc, stale, screen, calc>>
    /\ UNCHANGED otherThanEffect

\* finally: if (!cancelled) setLoading(false)
Finally(run) == IF Live(run) THEN FALSE ELSE loading

\* catch: if (!cancelled) setError(e?.message || "Failed to load data")
Catch(run, message) == IF Live(run) THEN message ELSE error

\* the fetch of run r settles, and the run goes on to its next await or its end
Fetched(r) ==
    /\ runs[r].pc = "fetch"
    /\ \E k \in FetchOutcomes :
        /\ runs' = [runs EXCEPT ![r].pc = IF k = "ok" THEN "json" ELSE "done",
                                ![r].outcome = CASE k = "ok" -> "none"
                                                 [] k = "401" -> "login"
                                                 [] OTHER -> IF Live(runs[r]) THEN "error"
                                                             ELSE "silent"]
        /\ route' = IF k = "401" THEN "/login" ELSE route
        /\ error' = CASE k = "500" -> Catch(runs[r], "Failed to load performance: 500")
                      [] k = "throws" -> Catch(runs[r], "Failed to load data")
                      [] OTHER -> error
        /\ loading' = IF k = "ok" THEN loading ELSE Finally(runs[r])
    /\ UNCHANGED <<qs, mounted, creds, data, stats, pc, stale, screen, calc>>
    /\ UNCHANGED otherThanEffect

\* res.json() of run r settles: setData and setStats if (!cancelled), or catch
Parsed(r) ==
    /\ runs[r].pc = "json"
    /\ \E k \in JsonOutcomes :
        /\ runs' = [runs EXCEPT ![r].pc = "done",
                                ![r].outcome = IF ~Live(runs[r]) THEN "silent"
                                               ELSE IF k = "parsed" THEN "data"
                                               ELSE "error"]
        /\ data' = IF k = "parsed" /\ Live(runs[r]) THEN <<Body(r).data>> ELSE data
        /\ stats' = IF k = "parsed" /\ Live(runs[r]) THEN Body(r).stats ELSE stats
        /\ error' = IF k = "throws" THEN Catch(runs[r], "Failed to load data") ELSE error
        /\ loading' = Finally(runs[r])
    /\ UNCHANGED <<qs, mounted, creds, route, pc, stale, screen, calc>>
    /\ UNCHANGED otherThanEffect

NextEffect ==
    \/ ChangeQuery
    \/ Unmount
    \/ \E r \in 1..MaxRuns : r <= Len(runs) /\ Fetched(r)
    \/ \E r \in 1..MaxRuns : r <= Len(runs) /\ Parsed(r)

SpecEffect == InitEffect /\ [][NextEffect]_vars

\* ------------------------------------------------------------- claim C24
Current == Len(runs)

AllSettled == \A r \in 1..Len(runs) : runs[r].pc = "done"

\* run r went on, past an await, in this step
Resumed(r) == runs'[r].pc # runs[r].pc

\* the state holds what the API sent to run r
HoldsBodyOf(r) == data = <<Body(r).data>> /\ stats = Body(r).stats

\* C24 as stated: once all runs have finished, the data and stats the page
\* holds come from the run started for the current query string.
C24_DataFromCurrentRun == (AllSettled /\ data # <<>>) => HoldsBodyOf(Current)

\* C24: a run whose effect has been cleaned up sets none of data, stats, error
\* and loading when it goes on, whatever the order of the responses; so data
\* and stats are those of the last run that parsed its response before its
\* cleanup, which is the current run whenever the current run succeeded.
C24_SupersededRunsAreSilent ==
    /\ [][\A r \in 1..Len(runs) :
            (runs[r].cancelled /\ Resumed(r)) => UNCHANGED <<data, stats, error, loading>>]_vars
    /\ [](data # <<>> =>
            \E r \in 1..Len(runs) :
                /\ runs[r].outcome = "data"
                /\ HoldsBodyOf(r)
                /\ \A t \in (r + 1)..Len(runs) : runs[t].outcome # "data")

\* the response of a superseded run was parsed and dropped, and the page
\* holds what the current run loaded
C24_Witness ==
    /\ AllSettled
    /\ \E r \in 1..(Current - 1) : runs[r].outcome = "silent"
    /\ runs[Current].outcome = "data"
    /\ HoldsBodyOf(Current)
    /\ ~loading

\* ------------------------------------------------- loadData (part_001 312-371)
MaxCalls == 2

\* the five data states, in the order loadData fetches, parses and sets them
DataStates ==
    <<"performanceData", "allocationData", "symphonyData", "riskComparisonData",
      "portfolioRiskData">>

\* the statuses a response of the proxy carries here
Statuses == {200, 401, 500}

\* the message of the Error thrown for the k-th response when it is not ok
FailureMessage(k) ==
    <<"Failed to load performance: 500", "Failed to load allocation: 500",
      "Failed to load symphonies: 500", "Failed to load risk comparison: 500",
      "Failed to load portfolio risk: 500">>[k]

\* the body the API sends call c for the k-th data state
BodyOf(c, k) == [call |-> c, state |-> DataStates[k]]

\* sets each state as soon as its body has parsed
SetOnEach(i) == {i}

\* the data states set once the i-th body has parsed: lines 361-365 follow the
\* last await
SetOn(i) == IF i = Len(DataStates) THEN 1..Len(DataStates) ELSE {}

\* u with the data states of S set to the bodies sent to call c
WithBodies(u, c, S) ==
    [f \in DOMAIN u |->
        IF \E k \in S : DataStates[k] = f
        THEN <<BodyOf(c, CHOOSE k \in S : DataStates[k] = f)>>
        ELSE u[f]]

\* catch and finally: setError(message), setLoading(false)
Caught(u, message) == [u EXCEPT !.error = message, !.loading = FALSE]

\* router.replace("/login"), return, finally: setLoading(false)
Redirected(u) == [u EXCEPT !.route = "/login", !.loading = FALSE]

CallEnded(how) == [pc |-> "done", parsed |-> 0, outcome |-> how]

InitLoad ==
    /\ stored \in BOOLEAN
    /\ ui = NoPage
    /\ calls = <<>>
    /\ requests = <<>>
    /\ DashIdle
    /\ AuthIdle
    /\ CsrfIdle
    /\ LookbackIdle
    /\ WindowIdle
    /\ LevelIdle
    /\ ScorerIdle
    /\ EngineIdle
    /\ EffectIdle

\* loadData up to its first await: setLoading(true), setError(null), then the
\* redirect without credentials, else the five fetches are sent
LoadData ==
    /\ Len(calls) < MaxCalls
    /\ LET u == [ui EXCEPT !.loading = TRUE, !.error = Null] IN
        IF ~stored
        THEN /\ ui' = Redirected(u)
             /\ calls' = Append(calls, CallEnded("login"))
        ELSE /\ ui' = u
             /\ calls' = Append(calls, [pc |-> "fetch", parsed |-> 0, outcome |-> "none"])
    /\ UNCHANGED <<stored, requests>>
    /\ UNCHANGED otherThanPage

\* Promise.all of call c settles: it rejects, or resolves with five responses
Settled(c) ==
    /\ calls[c].pc = "fetch"
    /\ \E rejected \in BOOLEAN, status \in [1..Len(DataStates) -> Statuses] :
        IF rejected
        THEN /\ ui' = Caught(ui, "Failed to fetch")
             /\ calls' = [calls EXCEPT ![c] = CallEnded("error")]
        ELSE IF \E k \in DOMAIN status : status[k] = 401
        THEN /\ ui' = Redirected(ui)
             /\ calls' = [calls EXCEPT ![c] = CallEnded("login")]
        ELSE IF \E k \in DOMAIN status : ~Ok(status[k])
        THEN /\ ui' = Caught(ui, FailureMessage(
                                    CHOOSE k \in DOMAIN status :
                                        /\ ~Ok(status[k])
                                        /\ \A j \in 1..(k - 1) : Ok(status[j])))
             /\ calls' = [calls EXCEPT ![c] = CallEnded("error")]
        ELSE /\ ui' = ui
             /\ calls' = [calls EXCEPT ![c].pc = "json"]
    /\ UNCHANGED <<stored, requests>>
    /\ UNCHANGED otherThanPage

\* the next res.json() of call c settles: it throws, or the body has parsed
\* and the call goes on to the next await, or to the setters after the last
BodyParsed(c) ==
    /\ calls[c].pc = "json"
    /\ \E throws \in BOOLEAN :
        LET i == calls[c].parsed + 1 IN
        IF throws
        THEN /\ ui' = Caught(ui, "Unexpected end of JSON input")
             /\ calls' = [calls EXCEPT ![c] = [CallEnded("error") EXCEPT !.parsed = i - 1]]
        ELSE IF i = Len(DataStates)
        THEN /\ ui' = [WithBodies(ui, c, SetOn(i)) EXCEPT !.loading = FALSE]
             /\ calls' = [calls EXCEPT ![c] = [CallEnded("data") EXCEPT !.parsed = i]]
        ELSE /\ ui' = WithBodies(ui, c, SetOn(i))
             /\ calls' = [calls EXCEPT ![c].parsed = i]
    /\ UNCHANGED <<stored, requests>>
    /\ UNCHANGED otherThanPage

NextLoad ==
    \/ LoadData
    \/ \E c \in 1..MaxCalls : c <= Len(calls) /\ Settled(c)
    \/ \E c \in 1..MaxCalls : c <= Len(calls) /\ BodyParsed(c)

SpecLoad == InitLoad /\ [][NextLoad]_vars

\* ------------------------------------------------------------- claim C25
\* the five data states
Five(u) == [k \in 1..Len(DataStates) |-> u[DataStates[k]]]

\* call c reached its end in this step
EndsNow(c) == calls[c].pc # "done" /\ calls'[c].pc = "done"

\* call c got five ok responses and parsed the five bodies
Complete(call) == call.outcome = "data" /\ call.parsed = Len(DataStates)

\* C25: loadData sets the five data states together or not at all: in a step
\* they either stay as they are or all five become the bodies of a call that
\* got five ok responses and parsed all five; a call that ends without
\* credentials, on a 401, on a response that is not ok or on a throw changes
\* none; and a call that ends leaves loading false.
C25_AllFiveOrNone ==
    [][/\ \/ Five(ui') = Five(ui)
          \/ \E c \in 1..Len(calls) :
                /\ EndsNow(c)
                /\ Complete(calls'[c])
                /\ Five(ui') = [k \in 1..Len(DataStates) |-> <<BodyOf(c, k)>>]
       /\ \A c \in 1..Len(calls') :
             (calls'[c].pc = "done" /\ (c > Len(calls) \/ calls[c].pc # "done")) =>
                 /\ ~ui'.loading
                 /\ ~Complete(calls'[c]) => Five(ui') = Five(ui)]_vars

\* a call that failed on its third body ended after another call had set the
\* five states
C25_Witness ==
    /\ \E c \in 1..Len(calls) : calls[c].outcome = "error" /\ calls[c].parsed = 2
    /\ \E c \in 1..Len(calls) :
          /\ Complete(calls[c])
          /\ Five(ui) = [k \in 1..Len(DataStates) |-> <<BodyOf(c, k)>>]
    /\ ui.error # Null
    /\ ~ui.loading

\* --------------------------- toggleSymphonyExpansion (part_001 411-454)
MaxInFlight == 2

SymphonyIds == {"s1", "s2"}

\* how a comparison fetch settles: a 401, a response that is not ok, a
\* rejection or a body that does not parse, or a parsed body
ComparisonOutcomes == {"401", "500", "throws", "ok"}

\* loads on every expansion
NeedsLoadAlways(u, id) == TRUE

\* !symphonyComparisonData.has(symphonyId)
NeedsLoad(u, id) == id \notin u.symphonyComparisonData

\* loadSymphonyComparison up to its await: the fetches in flight after the call
loadSymphonyComparison(id) == IF stored THEN Append(requests, id) ELSE requests

\* toggleSymphonyExpansion: the expanded set and the fetches in flight it leaves
toggleSymphonyExpansion(id) ==
    IF id \in ui.expandedSymphonies
    THEN [expanded |-> ui.expandedSymphonies \ {id}, requests |-> requests]
    ELSE [expanded |-> ui.expandedSymphonies \cup {id},
          requests |-> IF NeedsLoad(ui, id) THEN loadSymphonyComparison(id) ELSE requests]

\* the page shows the symphony rows: it was loaded with credentials stored
InitToggle ==
    /\ stored = TRUE
    /\ ui = [NoPage EXCEPT !.loading = FALSE]
    /\ calls = <<>>
    /\ requests = <<>>
    /\ DashIdle
    /\ AuthIdle
    /\ CsrfIdle
    /\ LookbackIdle
    /\ WindowIdle
    /\ LevelIdle
    /\ ScorerIdle
    /\ EngineIdle
    /\ EffectIdle

\* a click on the chevron of a symphony row
Toggle(id) ==
    /\ LET r == toggleSymphonyExpansion(id) IN
        /\ Len(r.requests) <= MaxInFlight
        /\ ui' = [ui EXCEPT !.expandedSymphonies = r.expanded]
        /\ requests' = r.requests
    /\ UNCHANGED <<stored, calls>>
    /\ UNCHANGED otherThanPage

\* the i-th comparison fetch in flight settles and loadSymphonyComparison ends
Answered(i) ==
    /\ i \in 1..Len(requests)
    /\ \E k \in ComparisonOutcomes :
        ui' = CASE k = "ok" ->
                    [ui EXCEPT !.symphonyComparisonData = @ \cup {requests[i]}]
                [] k = "401" -> [ui EXCEPT !.route = "/login"]
                [] OTHER -> ui
    /\ requests' = [j \in 1..(Len(requests) - 1) |->
                       IF j < i THEN requests[j] ELSE requests[j + 1]]
    /\ UNCHANGED <<stored, calls>>
    /\ UNCHANGED otherThanPage

\* the credentials are removed from localStorage in another tab
StorageCleared ==
    /\ stored
    /\ stored' = FALSE
    /\ UNCHANGED <<ui, calls, requests>>
    /\ UNCHANGED otherThanPage

NextToggle ==
    \/ \E id \in SymphonyIds : Toggle(id)
    \/ \E i \in 1..MaxInFlight : Answered(i)
    \/ StorageCleared

SpecToggle == InitToggle /\ [][NextToggle]_vars

\* ------------------------------------------------------------- claim C26
\* the step toggled the row of id
Toggled(id) == (id \in ui.expandedSymphonies) # (id \in ui'.expandedSymphonies)

\* the step sent a comparison fetch for id
Issued(id) == requests' = Append(requests, id)

Expanding(id) == id \notin ui.expandedSymphonies

Loaded(id) == id \in ui.symphonyComparisonData

\* C26 as stated: toggleSymphonyExpansion(id) requests the comparison data of
\* id exactly when id is being expanded and symphonyComparisonData has no
\* entry for id.
C26_RequestsIffExpandingUnloaded ==
    [][\A id \in SymphonyIds :
          Toggled(id) => (Issued(id) <=> (Expanding(id) /\ ~Loaded(id)))]_vars

\* C26: toggleSymphonyExpansion(id) sends the comparison fetch for id exactly
\* when id is being expanded, symphonyComparisonData has no entry for id and
\* localStorage holds both credentials; collapsing sends none, expanding a
\* symphony whose data is loaded sends none, and nothing else sends one.
C26_RequestsIffExpandingUnloadedWithCreds ==
    [][\A id \in SymphonyIds :
          /\ Toggled(id) => (Issued(id) <=> (Expanding(id) /\ ~Loaded(id) /\ stored))
          /\ Issued(id) => Toggled(id)]_vars

\* one row is expanded with its data loaded and nothing in flight for it,
\* another is expanded while its fetch is in flight
C26_Witness ==
    \E a \in SymphonyIds, b \in SymphonyIds :
        /\ a # b
        /\ a \in ui.expandedSymphonies /\ Loaded(a)
        /\ \A i \in 1..Len(requests) : requests[i] # a
        /\ b \in ui.expandedSymphonies /\ ~Loaded(b)
        /\ \E i \in 1..Len(requests) : requests[i] = b

====
